---- MODULE Spec2Model ----
(***************************************************************************)
(* Prediction engine (src/src/lib/prediction-utils.ts) and scenario        *)
(* simulator (src/src/lib/scenario-utils.ts) of BabyG.                      *)
(*                                                                         *)
(* Number representation.  TLC has integers only, so JavaScript numbers    *)
(* are kept as exact fixed-point integers:                                  *)
(*   - a duration (estimatedDuration) is counted in ticks of 1/20 ms: every *)
(*     heuristic estimate is (a multiple of 50 ms) x (tenths) x (tenths) x  *)
(*     (tenths), hence a whole number of ticks;                             *)
(*   - totalEstimatedTime is counted in 1/100 ms (sum of ticks x 1.2);      *)
(*   - confidenceScore is counted in 1/200, the variance component being    *)
(*     floored to 1/100; NaN is the distinguished value NaN;                *)
(*   - a falsy optional field (undefined, 0, "") is 0 for numbers, "" for   *)
(*     strings and <<>> / 0 for subtasks: the code reads these fields only  *)
(*     through truthiness tests (x || d, if (x), x && y).                   *)
(* Floating-point rounding is not modelled.                                 *)
(***************************************************************************)
EXTENDS Integers, Sequences, FiniteSets, TLC

VARIABLES
    \* --- one call of predictTaskCompletionTime (specification SpecPredict)
    ptask,      \* the task argument
    phist,      \* the historicalTasks argument
    prole,      \* the agentRole argument ("" when omitted)
    presult,    \* <<the returned TaskPrediction>>, <<>> before the call
    \* --- the scenario simulator and its caller (specification Spec)
    arrays,     \* heap of Task[] arrays: address -> sequence of task addresses
    tasks,      \* heap of Task objects: address -> record
    objs,       \* heap of Objective objects: address -> record
    scens,      \* heap of Scenario objects: address -> record
    hist,       \* the historicalObjectives corpus passed to every call
    last,       \* the last call: operation, argument scenario a, result b, input
    \* --- calls of the other exported functions, on values
    args,       \* the function called and its arguments
    ret,        \* the values returned so far, in call order
    \* --- the BabyAGI store and the component that renders it
    store,      \* the zustand state: objectives, currentObjective, isProcessing
    effect,     \* the auto-processing effect: dependencies of its last run, its timer
    inflight,   \* <<the objective captured by a task generation still awaited>>
    clock       \* Date.now(), in milliseconds since the page was loaded

predVars == <<ptask, phist, prole, presult>>
scenVars == <<arrays, tasks, objs, scens, hist, last>>
callVars == <<args, ret>>
storeVars == <<store, effect, inflight, clock>>
vars == <<ptask, phist, prole, presult, arrays, tasks, objs, scens, hist, last, args, ret,
          store, effect, inflight, clock>>

----------------------------------------------------------------------------
(* Scales and helpers *)

\* ticks per millisecond of an estimatedDuration
TicksPerMs == 4 * 5
\* confidenceScore 1.0
ConfOne == 2 * 100
\* IEEE NaN (0/0); every comparison with it is false
NaN == 0 - 1
\* every timestamp of the model is a multiple of this many milliseconds, so
\* that a mean over at most TopK durations is a whole number of ticks
TimeGrain == 40 * 2520

Min(a, b) == IF a < b THEN a ELSE b
Max(a, b) == IF a > b THEN a ELSE b

\* JavaScript x < y on numbers
Less(x, y) == x # NaN /\ y # NaN /\ x < y
\* JavaScript x > y on numbers
Greater(x, y) == x # NaN /\ y # NaN /\ x > y

\* the sequence s, evaluated once (TLC keeps [i \in 1..n |-> e] unevaluated)
Tuple(s) == s \o <<>>

RECURSIVE SumSeq(_)
SumSeq(s) == IF s = <<>> THEN 0 ELSE Head(s) + SumSeq(Tail(s))

\* String.prototype.toLowerCase on the category labels of the model
toLowerCase(s) ==
    CASE s = "Testing" -> "testing"
      [] s = "RESEARCH" -> "research"
      [] OTHER -> s

----------------------------------------------------------------------------
(* prediction-utils.ts *)

AgentRoles == {"developer", "designer", "researcher", "manager", "analyst", "general"}

\* a table in which every role has the multiplier 1.0
getAgentSpeedMultiplier_flat(role) == 5 + 5

\* multipliers in tenths
getAgentSpeedMultiplier(role) ==
    LET r == IF role = "" THEN "general" ELSE role IN
    CASE r = "developer" -> 9
      [] r = "designer" -> 11
      [] r = "researcher" -> 13
      [] r = "manager" -> 8
      [] r = "analyst" -> 10
      [] r = "general" -> 10

getCategoryComplexity(category) ==
    LET c == toLowerCase(category) IN
    CASE c = "research" -> 4
      [] c = "planning" -> 3
      [] c = "execution" -> 6
      [] c = "testing" -> 5
      [] c = "documentation" -> 2
      [] c = "optimization" -> 7
      [] OTHER -> 4

extractTaskFeatures(task) ==
    << Len(task.title),
       IF task.priority # 0 THEN task.priority ELSE 5,
       IF task.category # "" THEN getCategoryComplexity(task.category) ELSE 3,
       Len(task.subtasks) * 2 >>

\* category multipliers of the heuristic, in tenths
categoryMultipliers(category) ==
    LET c == toLowerCase(category) IN
    CASE c = "research" -> 15
      [] c = "planning" -> 12
      [] c = "execution" -> 18
      [] c = "testing" -> 14
      [] c = "documentation" -> 10
      [] c = "optimization" -> 20
      [] OTHER -> 13

HeuristicConfidence == 80
HeuristicFactors == <<"Heuristic estimation", "Insufficient historical data">>

\* an addition that grows with the priority number
PriorityAddition_growing(priority) == priority * (30000 \div 50)

\* (11 - task.priority) * 30000, in units of 50 ms
PriorityAddition(priority) == (11 - priority) * (30000 \div 50)

\* baseDuration is kept in units of 50 ms until the three multipliers (tenths
\* each) turn it into ticks: 50 ms / 1000 = 1/20 ms
getHeuristicEstimate(task, agentRole) ==
    LET base0 == 180000 \div 50
        base1 == base0 + Len(task.title)
        base2 == IF task.priority # 0 THEN base1 + PriorityAddition(task.priority)
                 ELSE base1
        cat   == IF task.category # "" THEN categoryMultipliers(task.category) ELSE 10
        sub   == IF Len(task.subtasks) > 0 THEN 10 + Len(task.subtasks) * 3 ELSE 10
    IN [ estimatedDuration |-> base2 * cat * sub * getAgentSpeedMultiplier(agentRole),
         confidenceScore   |-> HeuristicConfidence,
         factors           |-> HeuristicFactors,
         similarTaskCount  |-> 0 ]

(* Cosine similarity dot / (|f1| |f2|) is kept exactly as the pair
   [num |-> dot, den2 |-> |f1|^2 |f2|^2]; the result 0 is [num |-> 0, den2 |-> 1].
   Feature components are never negative, so num >= 0. *)
DotProduct(f1, f2) == SumSeq(Tuple([i \in 1..Len(f1) |-> f1[i] * f2[i]]))

calculateSimilarity(features1, features2) ==
    IF Len(features1) # Len(features2) THEN [num |-> 0, den2 |-> 1]
    ELSE LET m1 == DotProduct(features1, features1)
             m2 == DotProduct(features2, features2)
         IN IF m1 = 0 \/ m2 = 0 THEN [num |-> 0, den2 |-> 1]
            ELSE [num |-> DotProduct(features1, features2), den2 |-> m1 * m2]

\* a threshold of 0 in place of 0.3
AboveThreshold_zero(sim) == sim.num > 0

\* similarity > 0.3
AboveThreshold(sim) == sim.num > 0 /\ 100 * sim.num * sim.num > 9 * sim.den2
\* a.similarity > b.similarity
SimGreater(a, b) == a.num * a.num * b.den2 > b.num * b.num * a.den2

\* Array.prototype.sort((a, b) => b.similarity - a.similarity): stable, descending
RECURSIVE SortBySimilarity(_)
SortBySimilarity(items) ==
    IF items = <<>> THEN <<>>
    ELSE LET best == CHOOSE i \in 1..Len(items) :
                       /\ \A j \in 1..Len(items) :
                            ~SimGreater(items[j].similarity, items[i].similarity)
                       /\ \A j \in 1..(i - 1) :
                            SimGreater(items[i].similarity, items[j].similarity)
             rest == Tuple([k \in 1..(Len(items) - 1) |->
                              IF k < best THEN items[k] ELSE items[k + 1]])
         IN <<items[best]>> \o SortBySimilarity(rest)

TopK == 10

IsCompletedWithTiming(t) ==
    t.status = "completed" /\ t.completedAt # 0 /\ t.createdAt # 0

\* a threshold of two qualifying tasks
MinHistory_two == 3 - 1

MinHistory == 3

\* ceil(100 * stdDev / avgDuration) capped at 101, for avgDuration > 0:
\* stdDev / avg = sqrt(n * sum(d^2) - (sum d)^2) / (sum d), computed on d / TimeGrain
SpreadPercent(durations) ==
    LET d == Tuple([i \in 1..Len(durations) |-> durations[i] \div TimeGrain])
        n == Len(d)
        s == SumSeq(d)
        v == n * DotProduct(d, d) - s * s
    IN IF 100 * 100 * s * s < 10000 * v THEN 101
       ELSE CHOOSE p \in 0..100 :
              /\ p * p * s * s >= 10000 * v
              /\ p > 0 => (p - 1) * (p - 1) * s * s < 10000 * v

\* Math.max(0, 1 - stdDev / avgDuration) in 1/100; 0/0 is NaN and Math.max
\* returns NaN when an argument is NaN
varianceConfidence(durations) ==
    LET s == SumSeq(durations) IN
    IF s = 0 /\ \A i \in 1..Len(durations) : durations[i] = 0 THEN NaN
    ELSE Max(0, 100 - SpreadPercent(durations))

sampleConfidence(n) == Min(n * 10, 100)

PredictionFactors(task, n) ==
    (IF task.priority # 0 /\ task.priority <= 3 THEN <<"High priority">> ELSE <<>>)
    \o (IF task.category # "" THEN <<task.category \o " task">> ELSE <<>>)
    \o (IF Len(task.subtasks) > 0 THEN <<ToString(Len(task.subtasks)) \o " subtasks">> ELSE <<>>)
    \o (IF n >= 5 THEN <<"Strong historical data">> ELSE <<>>)

CompletedTasks(historicalTasks) == SelectSeq(historicalTasks, IsCompletedWithTiming)

SimilarTasks(task, completedTasks) ==
    LET currentFeatures == extractTaskFeatures(task)
        scored == [i \in 1..Len(completedTasks) |->
                     [task |-> completedTasks[i],
                      similarity |-> calculateSimilarity(
                          currentFeatures, extractTaskFeatures(completedTasks[i]))]]
        kept == SelectSeq(scored, LAMBDA item : AboveThreshold(item.similarity))
        sorted == SortBySimilarity(kept)
    IN SubSeq(sorted, 1, Min(Len(sorted), TopK))

predictTaskCompletionTime(task, historicalTasks, agentRole) ==
    LET completedTasks == CompletedTasks(historicalTasks) IN
    IF Len(completedTasks) < MinHistory THEN getHeuristicEstimate(task, agentRole)
    ELSE
    LET similarTasks == SimilarTasks(task, completedTasks) IN
    IF Len(similarTasks) = 0 THEN getHeuristicEstimate(task, agentRole)
    ELSE
    LET n == Len(similarTasks)
        durations == Tuple([i \in 1..n |->
                        similarTasks[i].task.completedAt - similarTasks[i].task.createdAt])
        vc == varianceConfidence(durations)
    IN [ estimatedDuration |->
             (SumSeq(durations) * TicksPerMs * getAgentSpeedMultiplier(agentRole))
                 \div (n * 10),
         confidenceScore   |-> IF vc = NaN THEN NaN ELSE sampleConfidence(n) + vc,
         factors           |-> PredictionFactors(task, n),
         similarTaskCount  |-> n ]

----------------------------------------------------------------------------
(* Task values (components/BabyAGI, interface Task).  result, estimatedTime, parentId
   and isCollapsed are read by neither library and are left out. *)

Task(id, title, status, priority, createdAt, completedAt, category, subtasks) ==
    [ id |-> id, title |-> title, status |-> status, priority |-> priority,
      createdAt |-> createdAt, completedAt |-> completedAt,
      category |-> category, subtasks |-> subtasks ]

Subtask(id) == Task(id, "s", "pending", 5, TimeGrain, 0, "", <<>>)

\* a completed historical task that took `grains` time grains
Done(id, title, priority, category, nsub, grains) ==
    Task(id, title, "completed", priority, TimeGrain, TimeGrain + grains * TimeGrain,
         category, [i \in 1..nsub |-> Subtask("s")])

----------------------------------------------------------------------------
(* predictObjectiveCompletion, on Objective values.  completionDate
   (Date.now() + totalEstimatedTime) depends on the clock alone and is left out. *)

RECURSIVE FlatMapTasks(_)
FlatMapTasks(objectives) ==
    IF objectives = <<>> THEN <<>>
    ELSE Head(objectives).tasks \o FlatMapTasks(Tail(objectives))

\* a threshold of 0.3 in place of 0.5
LowConfidence_lax == 30 * 2
LowConfidence == 100
HighRiskDuration == 600000
\* the high-risk threshold used for bottlenecks
BottleneckDuration_tenMinutes == 600 * 1000
BottleneckDuration == 900000
MaxBottlenecks == 3

\* the conversion to 1/100 ms without the 20% overhead
ApplyOverhead_none(sumTicks) == sumTicks * 5

\* totalEstimatedTime *= 1.2, from ticks (1/20 ms) to 1/100 ms: x 12/10 x 5 = x 6
ApplyOverhead(sumTicks) == sumTicks * 6

\* the thresholds compared with >= in place of >
riskLevelOf_atLeast(highRiskTasks, taskCount) ==
    IF highRiskTasks * 2 >= Max(taskCount, 1) THEN "high"
    ELSE IF highRiskTasks * 4 >= Max(taskCount, 1) THEN "medium"
    ELSE "low"

riskLevelOf(highRiskTasks, taskCount) ==
    \* riskRatio = highRiskTasks / max(taskCount, 1), compared by cross-multiplication
    IF highRiskTasks * 2 > Max(taskCount, 1) THEN "high"
    ELSE IF highRiskTasks * 4 > Max(taskCount, 1) THEN "medium"
    ELSE "low"

\* the per-task predictions of the forEach, in task order
TaskPredictions(objective, historicalObjectives) ==
    Tuple([i \in 1..Len(objective.tasks) |->
             predictTaskCompletionTime(objective.tasks[i],
                                       FlatMapTasks(historicalObjectives),
                                       objective.agentRole)])

\* what the forEach accumulates and the function returns, from the predictions
ObjectivePredictionFrom(objective, prediction) ==
    LET n == Len(objective.tasks)
        IsHighRisk(i) ==
            \/ Less(prediction[i].confidenceScore, LowConfidence)
            \/ Greater(prediction[i].estimatedDuration, HighRiskDuration * TicksPerMs)
        IsBottleneck(i) ==
            /\ IsHighRisk(i)
            /\ Greater(prediction[i].estimatedDuration, BottleneckDuration * TicksPerMs)
        bottleneckIdx == SelectSeq([i \in 1..n |-> i], IsBottleneck)
        bottlenecks == [k \in 1..Len(bottleneckIdx) |-> objective.tasks[bottleneckIdx[k]].title]
    IN [ totalEstimatedTime |->
             ApplyOverhead(SumSeq([i \in 1..n |-> prediction[i].estimatedDuration])),
         \* Map.set: a later task with the same id replaces the earlier entry
         taskPredictions |->
             [id \in {objective.tasks[i].id : i \in 1..n} |->
                prediction[CHOOSE i \in 1..n :
                             /\ objective.tasks[i].id = id
                             /\ \A j \in (i + 1)..n : objective.tasks[j].id # id]],
         riskLevel |-> riskLevelOf(Cardinality({i \in 1..n : IsHighRisk(i)}), n),
         bottlenecks |-> SubSeq(bottlenecks, 1, Min(Len(bottlenecks), MaxBottlenecks)) ]

\* (p \in {e} names the value of e)
predictObjectiveCompletion(objective, historicalObjectives) ==
    CHOOSE r \in { ObjectivePredictionFrom(objective, p) :
                     p \in {TaskPredictions(objective, historicalObjectives)} } : TRUE

----------------------------------------------------------------------------
(* The object heap.  Arrays and objects have addresses (their index in the
   heap), so that two references to one array are visible as such.  H is a
   record [arrays, tasks, objs, scens].  A Task object holds the address of its
   subtasks array, 0 when it has none.  Objective: title, description and
   aiInsights are read by neither library and are left out. *)

Heap == [arrays |-> arrays, tasks |-> tasks, objs |-> objs, scens |-> scens]

EmptyHeap == [arrays |-> <<>>, tasks |-> <<>>, objs |-> <<>>, scens |-> <<>>]

RECURSIVE TaskValueIn(_, _)
TaskValueIn(H, t) ==
    LET o == H.tasks[t] IN
    Task(o.id, o.title, o.status, o.priority, o.createdAt, o.completedAt, o.category,
         IF o.subtasks = 0 THEN <<>>
         ELSE Tuple([i \in 1..Len(H.arrays[o.subtasks]) |->
                       TaskValueIn(H, H.arrays[o.subtasks][i])]))

TaskListIn(H, arr) ==
    Tuple([i \in 1..Len(H.arrays[arr]) |-> TaskValueIn(H, H.arrays[arr][i])])

\* what a reader of the Objective object at address o sees
ObjectiveValueIn(H, o) ==
    [ id |-> H.objs[o].id, status |-> H.objs[o].status,
      createdAt |-> H.objs[o].createdAt, agentRole |-> H.objs[o].agentRole,
      tasks |-> TaskListIn(H, H.objs[o].tasks) ]

\* what a reader of the Scenario object at address s sees
ScenarioValueIn(H, s) ==
    [ id |-> H.scens[s].id, name |-> H.scens[s].name,
      baseObjective |-> ObjectiveValueIn(H, H.scens[s].baseObjective),
      modifiedObjective |-> ObjectiveValueIn(H, H.scens[s].modifiedObjective),
      prediction |-> H.scens[s].prediction,
      modifications |-> H.scens[s].modifications ]

----------------------------------------------------------------------------
(* JSON.  A JSON object is a record that has a field only for the properties
   JSON.stringify writes: a property whose value is undefined is omitted, and
   JSON.parse then yields an object without it (read back as undefined). *)

NoFields == [k \in {} |-> 0]

RECURSIVE JsonStringifyTask(_, _)
JsonStringifyTask(H, t) ==
    LET o == H.tasks[t] IN
    [ id |-> o.id, title |-> o.title, status |-> o.status, priority |-> o.priority,
      createdAt |-> o.createdAt ]
    @@ (IF o.completedAt # 0 THEN [completedAt |-> o.completedAt] ELSE NoFields)
    @@ (IF o.category # "" THEN [category |-> o.category] ELSE NoFields)
    @@ (IF o.subtasks # 0
        THEN [subtasks |-> [i \in 1..Len(H.arrays[o.subtasks]) |->
                              JsonStringifyTask(H, H.arrays[o.subtasks][i])]]
        ELSE NoFields)

JsonStringifyObjective(H, o) ==
    LET ob == H.objs[o] IN
    [ id |-> ob.id, status |-> ob.status, createdAt |-> ob.createdAt,
      tasks |-> [i \in 1..Len(H.arrays[ob.tasks]) |->
                   JsonStringifyTask(H, H.arrays[ob.tasks][i])] ]
    @@ (IF ob.agentRole # "" THEN [agentRole |-> ob.agentRole] ELSE NoFields)

\* JSON.parse builds new objects and arrays only: every address is fresh
RECURSIVE JsonParseTask(_, _), JsonParseTasks(_, _)
JsonParseTask(H, j) ==
    LET hasSub == "subtasks" \in DOMAIN j
        sub == IF hasSub THEN JsonParseTasks(H, j.subtasks) ELSE [H |-> H, addrs |-> <<>>]
        H1  == IF hasSub THEN [sub.H EXCEPT !.arrays = Append(@, sub.addrs)] ELSE H
        obj == [ id |-> j.id, title |-> j.title, status |-> j.status,
                 priority |-> j.priority, createdAt |-> j.createdAt,
                 completedAt |-> IF "completedAt" \in DOMAIN j THEN j.completedAt ELSE 0,
                 category |-> IF "category" \in DOMAIN j THEN j.category ELSE "",
                 subtasks |-> IF hasSub THEN Len(H1.arrays) ELSE 0 ]
    IN [H |-> [H1 EXCEPT !.tasks = Append(@, obj)], addr |-> Len(H1.tasks) + 1]

JsonParseTasks(H, js) ==
    IF js = <<>> THEN [H |-> H, addrs |-> <<>>]
    ELSE LET first == JsonParseTask(H, Head(js))
             rest  == JsonParseTasks(first.H, Tail(js))
         IN [H |-> rest.H, addrs |-> <<first.addr>> \o rest.addrs]

JsonParseObjective(H, j) ==
    LET ts == JsonParseTasks(H, j.tasks)
        H1 == [ts.H EXCEPT !.arrays = Append(@, ts.addrs)]
        obj == [ id |-> j.id, status |-> j.status, createdAt |-> j.createdAt,
                 agentRole |-> IF "agentRole" \in DOMAIN j THEN j.agentRole ELSE "",
                 tasks |-> Len(H1.arrays) ]
    IN [H |-> [H1 EXCEPT !.objs = Append(@, obj)], addr |-> Len(H1.objs) + 1]

----------------------------------------------------------------------------
(* scenario-utils.ts.  Every operation takes the heap H and returns
   [H |-> the heap after the call, result |-> the address of the returned
   Scenario].  description and createdAt of a Scenario are written once and
   never read, and are left out; the id `scenario-<now>-<random>` is a fresh
   number. *)

Repredict(H, objective, historicalObjectives) ==
    CHOOSE r \in { predictObjectiveCompletion(v, historicalObjectives) :
                     v \in {ObjectiveValueIn(H, objective)} } : TRUE

\* createScenario with modifiedObjective: { ...objective } in place of the JSON clone
createScenario_shallow(H, objective, name, historicalObjectives) ==
    LET H1 == [H EXCEPT !.objs = Append(@, H.objs[objective])]
        new == [ id |-> Len(H.scens) + 1,
                 name |-> name,
                 baseObjective |-> objective,
                 modifiedObjective |-> Len(H1.objs),
                 prediction |-> Repredict(H1, Len(H1.objs), historicalObjectives),
                 modifications |-> <<>> ]
    IN [H |-> [H1 EXCEPT !.scens = Append(@, new)], result |-> Len(H.scens) + 1]

createScenario(H, objective, name, historicalObjectives) ==
    LET parsed == JsonParseObjective(H, JsonStringifyObjective(H, objective))
        new == [ id |-> Len(H.scens) + 1,
                 name |-> name,
                 baseObjective |-> objective,
                 modifiedObjective |-> parsed.addr,
                 prediction |-> Repredict(parsed.H, parsed.addr, historicalObjectives),
                 modifications |-> <<>> ]
    IN [H |-> [parsed.H EXCEPT !.scens = Append(@, new)], result |-> Len(H.scens) + 1]

\* Rebuilt without the call of predictObjectiveCompletion
Rebuilt_stale(H, scenario, objective, entries, historicalObjectives) ==
    LET new == [H.scens[scenario] EXCEPT
                  !.modifiedObjective = objective,
                  !.modifications = @ \o entries]
    IN [H |-> [H EXCEPT !.scens = Append(@, new)], result |-> Len(H.scens) + 1]

\* Rebuilt with modifications: [entry] in place of [...modifications, entry]
Rebuilt_overwrite(H, scenario, objective, entries, historicalObjectives) ==
    LET new == [H.scens[scenario] EXCEPT
                  !.modifiedObjective = objective,
                  !.prediction = Repredict(H, objective, historicalObjectives),
                  !.modifications = entries]
    IN [H |-> [H EXCEPT !.scens = Append(@, new)], result |-> Len(H.scens) + 1]

(* The three steps every mutating operation ends with: newScenario = { ...scenario }
   gets the new modifiedObjective (already in H at address `objective`), the
   prediction recomputed for it, and modifications = [...modifications, ...entries]. *)
Rebuilt(H, scenario, objective, entries, historicalObjectives) ==
    LET new == [H.scens[scenario] EXCEPT
                  !.modifiedObjective = objective,
                  !.prediction = Repredict(H, objective, historicalObjectives),
                  !.modifications = @ \o entries]
    IN [H |-> [H EXCEPT !.scens = Append(@, new)], result |-> Len(H.scens) + 1]

\* addTaskToScenario with modifiedObjective.tasks.push(task) in place of the copy
addTaskToScenario_push(H, scenario, task, historicalObjectives) ==
    LET mo == H.objs[H.scens[scenario].modifiedObjective]
        H1 == [H EXCEPT !.arrays[mo.tasks] = Append(@, task)]
        H2 == [H1 EXCEPT !.objs = Append(@, mo)]
    IN Rebuilt(H2, scenario, Len(H2.objs),
               << [ type |-> "add_task",
                    description |-> "Added task: " \o H.tasks[task].title,
                    taskId |-> H.tasks[task].id,
                    details |-> [task |-> task] ] >>,
               historicalObjectives)

addTaskToScenario(H, scenario, task, historicalObjectives) ==
    LET mo == H.objs[H.scens[scenario].modifiedObjective]
        \* tasks: [...tasks, task]
        H1 == [H EXCEPT !.arrays = Append(@, Append(H.arrays[mo.tasks], task))]
        H2 == [H1 EXCEPT !.objs = Append(@, [mo EXCEPT !.tasks = Len(H1.arrays)])]
    IN Rebuilt(H2, scenario, Len(H2.objs),
               << [ type |-> "add_task",
                    description |-> "Added task: " \o H.tasks[task].title,
                    taskId |-> H.tasks[task].id,
                    details |-> [task |-> task] ] >>,
               historicalObjectives)

\* Array.prototype.findIndex(t => t.id === taskId), counted from 1; 0 for -1
FindIndex(H, arr, taskId) ==
    IF \E i \in 1..Len(H.arrays[arr]) : H.tasks[H.arrays[arr][i]].id = taskId
    THEN CHOOSE i \in 1..Len(H.arrays[arr]) :
           /\ H.tasks[H.arrays[arr][i]].id = taskId
           /\ \A j \in 1..(i - 1) : H.tasks[H.arrays[arr][j]].id # taskId
    ELSE 0

\* copy.splice(copy.findIndex(t => t.id === taskId), 1): index -1 removes the last task
TasksWithout_splice(H, arr, taskId) ==
    LET i == IF FindIndex(H, arr, taskId) = 0 THEN Len(H.arrays[arr])
             ELSE FindIndex(H, arr, taskId)
    IN SubSeq(H.arrays[arr], 1, i - 1) \o SubSeq(H.arrays[arr], i + 1, Len(H.arrays[arr]))

\* tasks.filter(t => t.id !== taskId)
TasksWithout(H, arr, taskId) ==
    SelectSeq(H.arrays[arr], LAMBDA t : H.tasks[t].id # taskId)

removeTaskFromScenario(H, scenario, taskId, historicalObjectives) ==
    LET mo == H.objs[H.scens[scenario].modifiedObjective]
        \* tasks.find(t => t.id === taskId)
        found == FindIndex(H, mo.tasks, taskId)
        H1 == [H EXCEPT !.arrays = Append(@, TasksWithout(H, mo.tasks, taskId))]
        H2 == [H1 EXCEPT !.objs = Append(@, [mo EXCEPT !.tasks = Len(H1.arrays)])]
    IN Rebuilt(H2, scenario, Len(H2.objs),
               IF found # 0
               THEN << [ type |-> "remove_task",
                         description |-> "Removed task: "
                             \o H.tasks[H.arrays[mo.tasks][found]].title,
                         taskId |-> taskId,
                         details |-> [task |-> H.arrays[mo.tasks][found]] ] >>
               ELSE <<>>,
               historicalObjectives)

\* the not-found path without the early return: a new scenario with a log entry
PriorityTaskNotFound_logged(H, scenario) ==
    LET new == [H.scens[scenario] EXCEPT
                  !.modifications = Append(@, [ type |-> "change_priority",
                                                description |-> "Changed priority",
                                                details |-> [newPriority |-> 0] ])]
    IN [H |-> [H EXCEPT !.scens = Append(@, new)], result |-> Len(H.scens) + 1]

\* if (taskIndex === -1) return scenario;
PriorityTaskNotFound(H, scenario) == [H |-> H, result |-> scenario]

modifyTaskPriority(H, scenario, taskId, newPriority, historicalObjectives) ==
    LET mo == H.objs[H.scens[scenario].modifiedObjective]
        taskIndex == FindIndex(H, mo.tasks, taskId)
    IN IF taskIndex = 0 THEN PriorityTaskNotFound(H, scenario)
       ELSE
       LET target == H.tasks[H.arrays[mo.tasks][taskIndex]]
           oldPriority == IF target.priority # 0 THEN target.priority ELSE 5
           \* { ...updatedTasks[taskIndex], priority: newPriority }
           H1 == [H EXCEPT !.tasks = Append(@, [target EXCEPT !.priority = newPriority])]
           \* updatedTasks = [...tasks] with the new object at taskIndex
           H2 == [H1 EXCEPT !.arrays = Append(@,
                     [H.arrays[mo.tasks] EXCEPT ![taskIndex] = Len(H1.tasks)])]
           H3 == [H2 EXCEPT !.objs = Append(@, [mo EXCEPT !.tasks = Len(H2.arrays)])]
       IN Rebuilt(H3, scenario, Len(H3.objs),
                  << [ type |-> "change_priority",
                       description |-> "Changed priority of \"" \o target.title
                           \o "\" from " \o ToString(oldPriority)
                           \o " to " \o ToString(newPriority),
                       taskId |-> taskId,
                       details |-> [oldPriority |-> oldPriority,
                                    newPriority |-> newPriority] ] >>,
                  historicalObjectives)

changeAgentRole(H, scenario, newRole, historicalObjectives) ==
    LET mo == H.objs[H.scens[scenario].modifiedObjective]
        oldRole == IF mo.agentRole # "" THEN mo.agentRole ELSE "general"
        \* { ...modifiedObjective, agentRole: newRole }: the tasks array is not copied
        H1 == [H EXCEPT !.objs = Append(@, [mo EXCEPT !.agentRole = newRole])]
    IN Rebuilt(H1, scenario, Len(H1.objs),
               << [ type |-> "change_role",
                    description |-> "Changed agent role from " \o oldRole
                        \o " to " \o newRole,
                    details |-> [oldRole |-> oldRole, newRole |-> newRole] ] >>,
               historicalObjectives)

\* new Map(tasks.map(t => [t.id, t])).get(id): the last task with that id, 0 if none
TaskMapGet(H, arr, id) ==
    IF \E i \in 1..Len(H.arrays[arr]) : H.tasks[H.arrays[arr][i]].id = id
    THEN H.arrays[arr][CHOOSE i \in 1..Len(H.arrays[arr]) :
           /\ H.tasks[H.arrays[arr][i]].id = id
           /\ \A j \in (i + 1)..Len(H.arrays[arr]) : H.tasks[H.arrays[arr][j]].id # id]
    ELSE 0

\* a reorder that keeps the tasks taskIds does not name, after the named ones
ReorderedTasks_keepRest(H, arr, taskIds) ==
    SelectSeq([k \in 1..Len(taskIds) |-> TaskMapGet(H, arr, taskIds[k])],
              LAMBDA t : t # 0)
    \o SelectSeq(H.arrays[arr],
                 LAMBDA t : \A k \in 1..Len(taskIds) : H.tasks[t].id # taskIds[k])

\* taskIds.map(id => taskMap.get(id)).filter(Boolean)
ReorderedTasks(H, arr, taskIds) ==
    SelectSeq([k \in 1..Len(taskIds) |-> TaskMapGet(H, arr, taskIds[k])],
              LAMBDA t : t # 0)

reorderTasks(H, scenario, taskIds, historicalObjectives) ==
    LET mo == H.objs[H.scens[scenario].modifiedObjective]
        H1 == [H EXCEPT !.arrays = Append(@, ReorderedTasks(H, mo.tasks, taskIds))]
        H2 == [H1 EXCEPT !.objs = Append(@, [mo EXCEPT !.tasks = Len(H1.arrays)])]
    IN Rebuilt(H2, scenario, Len(H2.objs),
               << [ type |-> "reorder_tasks",
                    description |-> "Reordered tasks",
                    details |-> [taskIds |-> taskIds] ] >>,
               historicalObjectives)

\* formatDuration of prediction-utils.ts, on whole milliseconds
predictionFormatDuration(milliseconds) ==
    LET seconds == milliseconds \div 1000
        minutes == seconds \div 60
        hours == minutes \div 60
        days == hours \div 24
    IN IF days > 0 THEN ToString(days) \o "d " \o ToString(hours % 24) \o "h"
       ELSE IF hours > 0 THEN ToString(hours) \o "h " \o ToString(minutes % 60) \o "m"
       ELSE IF minutes > 0 THEN ToString(minutes) \o "m"
       ELSE ToString(seconds) \o "s"

\* formatDuration of scenario-utils.ts, on whole milliseconds: the floor of a
\* quotient of ms is the floor of the same quotient of the whole part of ms
formatDuration(ms) ==
    LET hours == ms \div (1000 * 60 * 60)
        minutes == (ms % (1000 * 60 * 60)) \div (1000 * 60)
    IN IF hours > 0 THEN ToString(hours) \o "h " \o ToString(minutes) \o "m"
       ELSE IF minutes > 0 THEN ToString(minutes) \o "m"
       ELSE "<1m"

toUpperCase(riskLevel) ==
    CASE riskLevel = "low" -> "LOW"
      [] riskLevel = "medium" -> "MEDIUM"
      [] riskLevel = "high" -> "HIGH"

\* timeDeltas relative to the scenario before, in place of the first
TimeDeltas_previous(scenarios) ==
    [i \in 1..Len(scenarios) |->
       scenarios[i].prediction.totalEstimatedTime
         - scenarios[Max(i - 1, 1)].prediction.totalEstimatedTime]

\* scenarios.map(s => s.prediction.totalEstimatedTime - baseTime)
TimeDeltas(scenarios) ==
    [i \in 1..Len(scenarios) |->
       scenarios[i].prediction.totalEstimatedTime
         - scenarios[1].prediction.totalEstimatedTime]

RiskComparison(scenarios) ==
    [i \in 1..Len(scenarios) |->
       toUpperCase(scenarios[i].prediction.riskLevel) \o " ("
         \o ToString(Len(scenarios[i].modifiedObjective.tasks)) \o " tasks, "
         \o ToString(Len(scenarios[i].prediction.bottlenecks)) \o " bottlenecks)"]

\* the last index of the minimum, in place of the first
IndexOfMin_last(values) ==
    CHOOSE i \in 1..Len(values) :
        /\ \A j \in 1..Len(values) : values[i] <= values[j]
        /\ \A j \in (i + 1)..Len(values) : values[j] # values[i]

\* values.indexOf(Math.min(...values)), counted from 1, for a non-empty array
IndexOfMin(values) ==
    CHOOSE i \in 1..Len(values) :
        /\ \A j \in 1..Len(values) : values[i] <= values[j]
        /\ \A j \in 1..(i - 1) : values[j] # values[i]

riskMap(riskLevel) ==
    CASE riskLevel = "low" -> 1 [] riskLevel = "medium" -> 2 [] riskLevel = "high" -> 3

\* modifications.filter(m => m.type === type).length
CountOfType(modifications, type) ==
    Len(SelectSeq(modifications, LAMBDA m : m.type = type))

\* the time-saved test without the comparison of the delta
SavesTime_anyDelta(removedTasks, timeDelta) == removedTasks > 0

\* removedTasks > 0 && timeDeltas[index] < 0
SavesTime(removedTasks, timeDelta) == removedTasks > 0 /\ timeDelta < 0

\* the body of scenarios.forEach((scenario, index) => ...), index counted from 1
ModificationAdvice(scenario, index, timeDelta) ==
    IF index = 1 THEN <<>>
    ELSE
    LET addedTasks == CountOfType(scenario.modifications, "add_task")
        removedTasks == CountOfType(scenario.modifications, "remove_task")
    IN (IF SavesTime(removedTasks, timeDelta)
        THEN << "Removing " \o ToString(removedTasks) \o " task(s) in \""
                  \o scenario.name \o "\" saves " \o formatDuration((0 - timeDelta) \div 100) >>
        ELSE <<>>)
       \o
       (IF addedTasks > 0 /\ scenario.prediction.riskLevel = "low"
        THEN << "Adding " \o ToString(addedTasks) \o " task(s) in \""
                  \o scenario.name \o "\" is feasible with low risk" >>
        ELSE <<>>)

RECURSIVE AdviceFrom(_, _, _)
AdviceFrom(scenarios, timeDeltas, index) ==
    IF index > Len(scenarios) THEN <<>>
    ELSE ModificationAdvice(scenarios[index], index, timeDeltas[index])
         \o AdviceFrom(scenarios, timeDeltas, index + 1)

\* the recommendations, given timeDeltas and the two indices
Recommendations(scenarios, timeDeltas, fastestIndex, lowestRiskIndex) ==
    (IF fastestIndex > 1
     THEN << "Scenario \"" \o scenarios[fastestIndex].name \o "\" is the fastest option" >>
     ELSE <<>>)
    \o
    (IF lowestRiskIndex # fastestIndex
     THEN << "Scenario \"" \o scenarios[lowestRiskIndex].name \o "\" has the lowest risk" >>
     ELSE <<>>)
    \o AdviceFrom(scenarios, timeDeltas, 1)

compareScenarios(scenarios) ==
    IF Len(scenarios) = 0
    THEN [ scenarios |-> scenarios, timeDeltas |-> <<>>, riskComparison |-> <<>>,
           recommendations |-> <<>> ]
    ELSE CHOOSE r \in
           { [ scenarios |-> scenarios,
               timeDeltas |-> timeDeltas,
               riskComparison |-> Tuple(RiskComparison(scenarios)),
               recommendations |->
                   Recommendations(
                       scenarios, timeDeltas, IndexOfMin(timeDeltas),
                       IndexOfMin([i \in 1..Len(scenarios) |->
                                     riskMap(scenarios[i].prediction.riskLevel)])) ]
             : timeDeltas \in {Tuple(TimeDeltas(scenarios))} } : TRUE

----------------------------------------------------------------------------
(* SpecPredict: one call predictTaskCompletionTime(ptask, phist, prole) on
   inputs drawn from bounded sets. *)

\* longest historicalTasks list
MaxHist == 4

PredictTargets ==
    { Task("t1", "ab", "pending", 1, TimeGrain, 0, "documentation", <<>>),
      Task("t2", "abcd", "pending", 5, TimeGrain, 0, "", <<>>),
      Task("t3", "a", "pending", 0, TimeGrain, 0, "Testing", <<Subtask("s1")>>),
      Task("t4", "abc", "executing", 8, TimeGrain, 0, "misc",
           <<Subtask("s1"), Subtask("s2")>>) }

HistoricalPool ==
    { Done("h1", "ab", 5, "", 0, 3),
      Done("h2", "abc", 2, "planning", 0, 0),
      Done("h3", "a", 1, "documentation", 0, 10),
      Done("h4", "", 1, "documentation", 10, 7),
      Task("h5", "abcd", "pending", 5, TimeGrain, 0, "research", <<>>) }

RECURSIVE SeqsUpTo(_, _)
SeqsUpTo(S, n) ==
    IF n = 0 THEN {<<>>}
    ELSE LET shorter == SeqsUpTo(S, n - 1)
         IN shorter \cup {Append(q, x) : q \in {r \in shorter : Len(r) = n - 1}, x \in S}

IdleCall == args = [fn |-> "none"] /\ ret = <<>>

\* the store as created, the component not yet mounted
Null == [id |-> ""]
IdleStore ==
    /\ store = [objectives |-> <<>>, currentObjective |-> Null, isProcessing |-> FALSE]
    /\ effect = [deps |-> <<>>, timer |-> ""]
    /\ inflight = <<>>
    /\ clock = 0

IdleScenario ==
    /\ arrays = <<>> /\ tasks = <<>> /\ objs = <<>> /\ scens = <<>>
    /\ hist = <<>> /\ last = [op |-> "none"]

InitPredict ==
    /\ ptask \in PredictTargets
    /\ phist \in SeqsUpTo(HistoricalPool, MaxHist)
    /\ prole \in AgentRoles \cup {""}
    /\ presult = <<>>
    /\ IdleScenario
    /\ IdleCall
    /\ IdleStore

PredictTask ==
    /\ presult = <<>>
    /\ presult' = <<predictTaskCompletionTime(ptask, phist, prole)>>
    /\ UNCHANGED <<ptask, phist, prole>>
    /\ UNCHANGED scenVars
    /\ UNCHANGED storeVars
    /\ UNCHANGED callVars

NextPredict == PredictTask

SpecPredict == InitPredict /\ [][NextPredict]_vars

----------------------------------------------------------------------------
(* SpecTopK: the same call on histories long enough for slice(0, 10) to cut:
   an optional task that is not similar or not completed, followed by up to
   MaxSimilar completed tasks that are similar to the target. *)

\* longest run of similar historical tasks
MaxSimilar == 11

TopKTargets ==
    { Task("t1", "ab", "pending", 1, TimeGrain, 0, "documentation", <<>>),
      Task("t2", "abcd", "pending", 5, TimeGrain, 0, "", <<>>) }

SimilarPool ==
    { Done("h1", "ab", 5, "", 0, 3),
      Done("h3", "a", 1, "documentation", 0, 10) }

TopKPrefixes ==
    { <<>>,
      << Done("h4", "", 1, "documentation", 10, 7) >>,
      << Task("h5", "abcd", "pending", 5, TimeGrain, 0, "research", <<>>) >> }

InitTopK ==
    /\ ptask \in TopKTargets
    /\ phist \in {pre \o run : pre \in TopKPrefixes, run \in SeqsUpTo(SimilarPool, MaxSimilar)}
    /\ prole \in {"manager"}
    /\ presult = <<>>
    /\ IdleScenario
    /\ IdleCall
    /\ IdleStore

SpecTopK == InitTopK /\ [][NextPredict]_vars

----------------------------------------------------------------------------
(* Spec: a caller of scenario-utils.ts (WhatIfSimulator.tsx) that keeps every
   Scenario it was returned.  The store's current objective is loaded from its
   persisted JSON; the historical corpus is fixed for the session. *)

\* number of Scenario objects the caller obtains
MaxScenarios == 3

\* address of the store's current objective (the first object loaded)
currentObjective == 1

StoredObjectives ==
    { [ id |-> "o1", status |-> "active", createdAt |-> TimeGrain, agentRole |-> "general",
        tasks |-> <<
          [ id |-> "t1", title |-> "ab", status |-> "pending", priority |-> 1,
            createdAt |-> TimeGrain, category |-> "documentation" ],
          [ id |-> "t2", title |-> "abcd", status |-> "pending", priority |-> 5,
            createdAt |-> TimeGrain,
            subtasks |-> << [ id |-> "s1", title |-> "s", status |-> "pending",
                              priority |-> 5, createdAt |-> TimeGrain ] >> ] >> ],
      [ id |-> "o2", status |-> "active", createdAt |-> TimeGrain,
        tasks |-> <<
          [ id |-> "t1", title |-> "a", status |-> "completed", priority |-> 0,
            createdAt |-> TimeGrain, completedAt |-> 2 * TimeGrain,
            category |-> "Testing", subtasks |-> <<>> ],
          [ id |-> "t2", title |-> "abc", status |-> "executing", priority |-> 3,
            createdAt |-> TimeGrain ] >> ] }

HistoricalObjective(id, ts) ==
    [id |-> id, status |-> "completed", createdAt |-> TimeGrain, agentRole |-> "general",
     tasks |-> ts]

Corpora ==
    { <<>>,
      << HistoricalObjective("h", << Done("h1", "ab", 5, "", 0, 3),
                                     Done("h3", "a", 1, "documentation", 0, 10) >>),
         HistoricalObjective("g", << Done("h6", "abc", 4, "execution", 1, 12) >>) >> }

NewTasks ==
    { Task("n1", "abc", "pending", 5, 2 * TimeGrain, 0, "", 0),
      Task("n2", "abcde", "pending", 2, 2 * TimeGrain, 0, "optimization", 0) }

\* "s1" is the id of a subtask in o1 and of no task in o2
TaskIdInputs == {"t1", "n1", "s1"}
PriorityInputs == {7}
RoleInputs == {"developer", "researcher"}
ReorderInputs ==
    { <<>>, <<"t2", "t1">>, <<"t1", "t1">>, <<"zz", "t2">>, <<"t1", "t2", "n1", "n2">> }

IdlePredict == ptask = Subtask("s") /\ phist = <<>> /\ prole = "" /\ presult = <<>>

Init ==
    /\ IdlePredict
    /\ IdleStore
    /\ IdleCall
    /\ \E j \in StoredObjectives :
         LET loaded == JsonParseObjective(EmptyHeap, j).H
         IN arrays = loaded.arrays /\ tasks = loaded.tasks
            /\ objs = loaded.objs /\ scens = loaded.scens
    /\ hist \in Corpora
    /\ last = [op |-> "none"]

\* the heap after a call that returned `returned`, and the record of the call
Returns(returned, op, a, input) ==
    \E R \in {returned} :
        /\ arrays' = R.H.arrays /\ tasks' = R.H.tasks
        /\ objs' = R.H.objs /\ scens' = R.H.scens
        /\ last' = [op |-> op, a |-> a, b |-> R.result, input |-> input]
        /\ UNCHANGED hist
        /\ UNCHANGED predVars
        /\ UNCHANGED callVars
        /\ UNCHANGED storeVars

TaskIdsOf(H, s) ==
    LET arr == H.arrays[H.objs[H.scens[s].modifiedObjective].tasks]
    IN {H.tasks[arr[i]].id : i \in 1..Len(arr)}

CreateScenario ==
    /\ Len(scens) < MaxScenarios
    /\ Returns(createScenario(Heap, currentObjective,
                              "Scenario " \o ToString(Len(scens)), hist),
               "createScenario", 0, currentObjective)

\* the caller builds a new Task object (handleAddTask) and passes it
AddTask ==
    /\ Len(scens) < MaxScenarios
    /\ \E a \in 1..Len(scens), v \in NewTasks :
         /\ v.id \notin TaskIdsOf(Heap, a)
         /\ LET H1 == [Heap EXCEPT !.tasks = Append(@, v)]
            IN Returns(addTaskToScenario(H1, a, Len(H1.tasks), hist), "addTask", a, v.id)

RemoveTask ==
    /\ Len(scens) < MaxScenarios
    /\ \E a \in 1..Len(scens), id \in TaskIdInputs :
         Returns(removeTaskFromScenario(Heap, a, id, hist), "removeTask", a, id)

ModifyPriority ==
    /\ Len(scens) < MaxScenarios
    /\ \E a \in 1..Len(scens), id \in TaskIdInputs, p \in PriorityInputs :
         Returns(modifyTaskPriority(Heap, a, id, p, hist), "modifyPriority", a, <<id, p>>)

ChangeAgentRole ==
    /\ Len(scens) < MaxScenarios
    /\ \E a \in 1..Len(scens), r \in RoleInputs :
         Returns(changeAgentRole(Heap, a, r, hist), "changeAgentRole", a, r)

ReorderTasks ==
    /\ Len(scens) < MaxScenarios
    /\ \E a \in 1..Len(scens), ids \in ReorderInputs :
         Returns(reorderTasks(Heap, a, ids, hist), "reorderTasks", a, ids)

Next ==
    \/ CreateScenario
    \/ AddTask
    \/ RemoveTask
    \/ ModifyPriority
    \/ ChangeAgentRole
    \/ ReorderTasks

Spec == Init /\ [][Next]_vars

----------------------------------------------------------------------------
(* SpecObjective: one call predictObjectiveCompletion(objective,
   historicalObjectives).  The objective's tasks are drawn from three kinds:
   one that is similar to the corpus tasks, and two with subtasks that are not
   (a short and a long heuristic estimate). *)

\* most tasks in the objective
MaxTasks == 4

ObjectiveTaskKinds ==
    { Task("k", "abcd", "pending", 1, TimeGrain, 0, "documentation", <<>>),
      Task("k", "x", "pending", 5 + 5, TimeGrain, 0, "documentation",
           <<Subtask("s1"), Subtask("s2"), Subtask("s3"), Subtask("s4")>>),
      Task("k", "yz", "pending", 1, TimeGrain, 0, "documentation",
           [i \in 1..(5 + 5) |-> Subtask("s")]) }

\* the task ids are distinct: the store names tasks by creation time and index
WithIds(ts) == [i \in 1..Len(ts) |-> [ts[i] EXCEPT !.id = "t" \o ToString(i)]]

\* three completed tasks that each took `grains` time grains
UniformCorpus(grains) ==
    << HistoricalObjective("h", << Done("h1", "abcde", 1, "documentation", 0, grains),
                                   Done("h2", "abcde", 1, "documentation", 0, grains) >>),
       HistoricalObjective("g", << Done("h3", "abcde", 1, "documentation", 0, grains) >>) >>

ObjectiveCorpora == { <<>>, UniformCorpus(3), UniformCorpus(5 + 5) }

InitObjective ==
    /\ IdlePredict
    /\ IdleStore
    /\ IdleScenario
    /\ \E ts \in SeqsUpTo(ObjectiveTaskKinds, MaxTasks), role \in {"", "manager", "researcher"},
          corpus \in ObjectiveCorpora :
         args = [ fn |-> "predictObjectiveCompletion",
                  objective |-> [ id |-> "o", status |-> "active", createdAt |-> TimeGrain,
                                  agentRole |-> role, tasks |-> WithIds(ts) ],
                  historicalObjectives |-> corpus ]
    /\ ret = <<>>

PredictObjective ==
    /\ args.fn = "predictObjectiveCompletion"
    /\ ret = <<>>
    /\ ret' = <<predictObjectiveCompletion(args.objective, args.historicalObjectives)>>
    /\ UNCHANGED args
    /\ UNCHANGED predVars
    /\ UNCHANGED scenVars
    /\ UNCHANGED storeVars

NextObjective == PredictObjective

SpecObjective == InitObjective /\ [][NextObjective]_vars

----------------------------------------------------------------------------
(* SpecCompare: one call of compareScenarios on the simulator's scenario   *)
(* list. Totals are in 1/100 ms.                                           *)

MaxCompared == 3

Modification(type) == [type |-> type]

ScenarioOf(total, riskLevel, taskCount, bottleneckCount, types) ==
    [ name |-> "",
      modifiedObjective |-> [tasks |-> [i \in 1..taskCount |-> Subtask("t")]],
      prediction |-> [ totalEstimatedTime |-> total * 100,
                       riskLevel |-> riskLevel,
                       bottlenecks |-> [i \in 1..bottleneckCount |-> "b"] ],
      modifications |-> [i \in 1..Len(types) |-> Modification(types[i])] ]

ScenarioKinds ==
    { ScenarioOf(150000, "medium", 3, 0, <<>>),
      ScenarioOf(150000, "high", 3, 1, <<>>),
      ScenarioOf(7350000, "low", 3, 0, <<>>),
      ScenarioOf(30000, "medium", 2, 0, <<"remove_task">>),
      ScenarioOf(30000, "low", 1, 0, <<"remove_task", "remove_task">>),
      ScenarioOf(150000, "low", 2, 0, <<"remove_task">>),
      ScenarioOf(7350000, "low", 3, 0, <<"remove_task", "add_task">>),
      ScenarioOf(7350000, "low", 4, 0, <<"add_task">>),
      ScenarioOf(7350000, "high", 5, 3, <<"add_task", "add_task">>),
      ScenarioOf(30000, "low", 3, 0, <<"add_task", "remove_task">>),
      ScenarioOf(30000, "high", 3, 0, <<"change_role">>),
      ScenarioOf(80000, "medium", 3, 0, <<"modify_priority", "remove_task">>) }

\* handleCreateScenario names the scenarios of the list
WithNames(ss) == [i \in 1..Len(ss) |-> [ss[i] EXCEPT !.name = "Scenario " \o ToString(i - 1)]]

InitCompare ==
    /\ IdlePredict
    /\ IdleStore
    /\ IdleScenario
    /\ \E ss \in SeqsUpTo(ScenarioKinds, MaxCompared) :
         args = [fn |-> "compareScenarios", scenarios |-> WithNames(ss)]
    /\ ret = <<>>

CompareScenarios ==
    /\ args.fn = "compareScenarios"
    /\ ret = <<>>
    /\ ret' = <<compareScenarios(args.scenarios)>>
    /\ UNCHANGED args
    /\ UNCHANGED predVars
    /\ UNCHANGED scenVars
    /\ UNCHANGED storeVars

NextCompare == CompareScenarios

SpecCompare == InitCompare /\ [][NextCompare]_vars

----------------------------------------------------------------------------
(* calculateVelocity.  Date.now() is the parameter now.  Rates per day and
   per week are in units of 1 / RateOne, which days = 1 and days = 7 divide. *)

RateOne == 36 * 70

DayMs == 24 * 60 * 60 * 1000

\* a filter that keeps every objective
IsRecent_always(obj, cutoffDate) == TRUE

\* obj.createdAt >= cutoffDate
IsRecent(obj, cutoffDate) == obj.createdAt >= cutoffDate

calculateVelocity(objectives, days, now) ==
    LET cutoffDate == now - days * DayMs
        recentObjectives == SelectSeq(objectives, LAMBDA obj : IsRecent(obj, cutoffDate))
        completedTasks ==
            FlatMapTasks([i \in 1..Len(recentObjectives) |->
                [tasks |-> SelectSeq(recentObjectives[i].tasks, IsCompletedWithTiming)]])
        count == Len(completedTasks)
    IN [ tasksPerDay |-> (count * RateOne) \div days,
         objectivesPerWeek |->
             ((Len(SelectSeq(recentObjectives, LAMBDA obj : obj.status = "completed"))
                 * RateOne) \div days) * 7,
         avgTaskDuration |->
             IF count > 0
             THEN SumSeq([i \in 1..count |->
                            completedTasks[i].completedAt - completedTasks[i].createdAt])
                    \div count
             ELSE 0 ]

\* new Date(Date.now() + totalEstimatedTime), the total being in 1/100 ms
WithCompletionDate(prediction, now) ==
    [f \in DOMAIN prediction \cup {"completionDate"} |->
       IF f = "completionDate" THEN now + prediction.totalEstimatedTime \div 100
       ELSE prediction[f]]

----------------------------------------------------------------------------
(* SpecCalls: repeated calls of predictTaskCompletionTime,                 *)
(* predictObjectiveCompletion and calculateVelocity on one set of          *)
(* arguments, while the clock advances.  ret records every call with the   *)
(* time at which it was made.                                              *)

MaxCalls == 2
MaxTicks == 2
MaxObjectives == 3

Now0 == 10 * DayMs

VelocityObjective(status, day, ts) ==
    [id |-> "v", status |-> status, createdAt |-> day * DayMs, agentRole |-> "general",
     tasks |-> ts]

VelocityPool ==
    { VelocityObjective("completed", 2, <<Done("a", "ab", 5, "", 0, 3)>>),
      VelocityObjective("completed", 3,
          << Done("b", "ab", 5, "", 0, 5), Done("c", "abc", 2, "planning", 1, 10),
             Task("d", "abcd", "pending", 5, TimeGrain, 0, "research", <<>>) >>),
      VelocityObjective("active", 9,
          << Done("e", "a", 1, "", 0, 7),
             Task("f", "ab", "completed", 5, TimeGrain, 0, "", <<>>),
             Task("g", "ab", "executing", 5, TimeGrain, 0, "",
                  <<Done("s", "s", 5, "", 0, 4)>>) >>),
      VelocityObjective("completed", 9, <<>>),
      VelocityObjective("active", 4, <<Done("h", "abc", 3, "", 0, 2)>>) }

InitCalls ==
    /\ IdlePredict
    /\ IdleStore
    /\ IdleScenario
    /\ ret = <<>>
    /\ \/ \E task \in PredictTargets, h \in SeqsUpTo(HistoricalPool, 2),
             run \in {<<>>, <<Done("h1", "ab", 5, "", 0, 3), Done("h3", "a", 1, "documentation", 0, 10),
                                Done("h6", "abcd", 5, "", 0, 5)>>},
             role \in {"", "general", "researcher"} :
            args = [fn |-> "predictTaskCompletionTime", task |-> task,
                    historicalTasks |-> h \o run, agentRole |-> role, now |-> Now0]
       \/ \E ts \in SeqsUpTo(ObjectiveTaskKinds, 2), role \in {"", "manager"},
             corpus \in ObjectiveCorpora :
            args = [fn |-> "predictObjectiveCompletion",
                    objective |-> [id |-> "o", status |-> "active", createdAt |-> TimeGrain,
                                   agentRole |-> role, tasks |-> WithIds(ts)],
                    historicalObjectives |-> corpus, now |-> Now0]
       \/ \E objectives \in SeqsUpTo(VelocityPool, MaxObjectives), days \in {1, 7} :
            args = [fn |-> "calculateVelocity", objectives |-> objectives,
                    days |-> days, now |-> Now0]

CallPredictTask ==
    /\ args.fn = "predictTaskCompletionTime"
    /\ Len(ret) < MaxCalls
    /\ ret' = Append(ret, [now |-> args.now,
                           value |-> predictTaskCompletionTime(
                                         args.task, args.historicalTasks, args.agentRole)])
    /\ UNCHANGED args
    /\ UNCHANGED predVars
    /\ UNCHANGED scenVars
    /\ UNCHANGED storeVars

CallPredictObjective ==
    /\ args.fn = "predictObjectiveCompletion"
    /\ Len(ret) < MaxCalls
    /\ ret' = Append(ret, [now |-> args.now,
                           value |-> WithCompletionDate(
                                         predictObjectiveCompletion(
                                             args.objective, args.historicalObjectives),
                                         args.now)])
    /\ UNCHANGED args
    /\ UNCHANGED predVars
    /\ UNCHANGED scenVars
    /\ UNCHANGED storeVars

CallVelocity ==
    /\ args.fn = "calculateVelocity"
    /\ Len(ret) < MaxCalls
    /\ ret' = Append(ret, [now |-> args.now,
                           value |-> calculateVelocity(args.objectives, args.days, args.now)])
    /\ UNCHANGED args
    /\ UNCHANGED predVars
    /\ UNCHANGED scenVars
    /\ UNCHANGED storeVars

\* the clock advances by a day
Tick ==
    /\ args.fn \in {"predictTaskCompletionTime", "predictObjectiveCompletion",
                    "calculateVelocity"}
    /\ args.now < Now0 + MaxTicks * DayMs
    /\ args' = [args EXCEPT !.now = args.now + DayMs]
    /\ UNCHANGED ret
    /\ UNCHANGED predVars
    /\ UNCHANGED scenVars
    /\ UNCHANGED storeVars

NextCalls == CallPredictTask \/ CallPredictObjective \/ CallVelocity \/ Tick

SpecCalls == InitCalls /\ [][NextCalls]_vars

----------------------------------------------------------------------------
(* SpecRole: predictTaskCompletionTime under every role, and the simulator *)
(* creating scenarios and changing their role to every role.               *)

ChangeAgentRoleAny ==
    /\ Len(scens) < MaxScenarios
    /\ \E a \in 1..Len(scens), r \in AgentRoles :
         Returns(changeAgentRole(Heap, a, r, hist), "changeAgentRole", a, r)

InitRole == InitPredict \/ Init

NextRole ==
    \/ PredictTask
    \/ (objs # <<>> /\ CreateScenario)
    \/ ChangeAgentRoleAny

SpecRole == InitRole /\ [][NextRole]_vars

----------------------------------------------------------------------------
(* SpecFormat: the two views format a duration, each with the formatDuration *)
(* it imports.                                                               *)

MaxUnits == 3

SecondMs == 10 * 100
MinuteMs == 60 * SecondMs
HourMs == 60 * MinuteMs

FormatInputs ==
    { m \in { k * unit + d : k \in 0..MaxUnits, unit \in {SecondMs, MinuteMs, HourMs, DayMs},
                             d \in {0 - 1, 0, 1, 61 * MinuteMs + SecondMs} } : m >= 0 }

InitFormat ==
    /\ IdlePredict
    /\ IdleStore
    /\ IdleScenario
    /\ \E ms \in FormatInputs : args = [fn |-> "formatDuration", milliseconds |-> ms]
    /\ ret = <<>>

\* PredictionInsights.tsx imports formatDuration from prediction-utils
FormatInPredictionView ==
    /\ args.fn = "formatDuration"
    /\ ret = <<>>
    /\ ret' = <<[view |-> "prediction", text |-> predictionFormatDuration(args.milliseconds)]>>
    /\ UNCHANGED args
    /\ UNCHANGED predVars
    /\ UNCHANGED scenVars
    /\ UNCHANGED storeVars

\* WhatIfSimulator.tsx imports formatDuration from scenario-utils
FormatInSimulator ==
    /\ args.fn = "formatDuration"
    /\ ret = <<>>
    /\ ret' = <<[view |-> "simulator", text |-> formatDuration(args.milliseconds)]>>
    /\ UNCHANGED args
    /\ UNCHANGED predVars
    /\ UNCHANGED scenVars
    /\ UNCHANGED storeVars

NextFormat == FormatInPredictionView \/ FormatInSimulator

SpecFormat == InitFormat /\ [][NextFormat]_vars

----------------------------------------------------------------------------
(* SpecFeatures: the call of extractTaskFeatures that predictTaskCompletionTime *)
(* makes for the current task and for every historical task.                    *)

MaxFeature == 3

RECURSIVE TitleOfLength(_)
TitleOfLength(n) == IF n = 0 THEN "" ELSE "a" \o TitleOfLength(n - 1)

FeatureCategories ==
    { "", "research", "planning", "execution", "testing", "documentation",
      "optimization", "Testing", "RESEARCH", "misc" }

FeaturePriorities == {0, 1, 5, 5 + 5}

InitFeatures ==
    /\ IdlePredict
    /\ IdleStore
    /\ IdleScenario
    /\ \E len \in 0..MaxFeature, priority \in FeaturePriorities,
          category \in FeatureCategories, nsub \in 0..(MaxFeature - 1) :
         args = [fn |-> "extractTaskFeatures",
                 task |-> Task("t", TitleOfLength(len), "pending", priority, TimeGrain, 0,
                               category, [i \in 1..nsub |-> Subtask("s")])]
    /\ ret = <<>>

ExtractTaskFeatures ==
    /\ args.fn = "extractTaskFeatures"
    /\ ret = <<>>
    /\ ret' = <<extractTaskFeatures(args.task)>>
    /\ UNCHANGED args
    /\ UNCHANGED predVars
    /\ UNCHANGED scenVars
    /\ UNCHANGED storeVars

NextFeatures == ExtractTaskFeatures

SpecFeatures == InitFeatures /\ [][NextFeatures]_vars

----------------------------------------------------------------------------
(* SpecHeuristic: getHeuristicEstimate called for a task under several     *)
(* priorities, as predictTaskCompletionTime does before and after          *)
(* modifyTaskPriority when the history is too short.  ret records each     *)
(* call with its priority; priority 0 stands for a missing priority.       *)

MaxPriority == 10

InitHeuristic ==
    /\ IdlePredict
    /\ IdleStore
    /\ IdleScenario
    /\ \E len \in 0..MaxFeature, category \in FeatureCategories,
          nsub \in 0..(MaxFeature - 1), role \in {"", "manager", "researcher"} :
         args = [fn |-> "getHeuristicEstimate",
                 task |-> Task("t", TitleOfLength(len), "pending", 0, TimeGrain, 0,
                               category, [i \in 1..nsub |-> Subtask("s")]),
                 agentRole |-> role]
    /\ ret = <<>>

HeuristicEstimate ==
    /\ args.fn = "getHeuristicEstimate"
    /\ Len(ret) < MaxCalls
    /\ \E priority \in 0..MaxPriority :
         ret' = Append(ret,
                   [priority |-> priority,
                    value |-> getHeuristicEstimate(
                                  [args.task EXCEPT !.priority = priority], args.agentRole)])
    /\ UNCHANGED args
    /\ UNCHANGED predVars
    /\ UNCHANGED scenVars
    /\ UNCHANGED storeVars

NextHeuristic == HeuristicEstimate

SpecHeuristic == InitHeuristic /\ [][NextHeuristic]_vars

----------------------------------------------------------------------------
(* SpecVectors: the two helpers of prediction-utils.ts that take a pair of  *)
(* number arrays, LinearRegression.fit and calculateSimilarity, called on   *)
(* arrays of every length.  A call either returns or throws: raised tells   *)
(* which.  slope and intercept are fractions [num, den]; den = 0 is the     *)
(* division by zero, which gives NaN or an infinity and does not throw.     *)

MaxVector == 2

\* LinearRegression.fit
fit(X, y) ==
    IF Len(X) # Len(y) \/ Len(X) = 0
    THEN [raised |-> TRUE, error |-> "Invalid training data"]
    ELSE LET n == Len(X)
             sumX == SumSeq(X)
             sumY == SumSeq(y)
             sumXY == DotProduct(X, y)
             sumX2 == DotProduct(X, X)
             slopeNum == n * sumXY - sumX * sumY
             slopeDen == n * sumX2 - sumX * sumX
         IN [ raised |-> FALSE,
              slope |-> [num |-> slopeNum, den |-> slopeDen],
              intercept |-> [num |-> sumY * slopeDen - slopeNum * sumX,
                             den |-> n * slopeDen] ]

Vectors == SeqsUpTo(0..2, MaxVector)

InitVectors ==
    /\ IdlePredict
    /\ IdleStore
    /\ IdleScenario
    /\ \E fn \in {"fit", "calculateSimilarity"}, a \in Vectors, b \in Vectors :
         args = [fn |-> fn, a |-> a, b |-> b]
    /\ ret = <<>>

Fit ==
    /\ args.fn = "fit"
    /\ ret = <<>>
    /\ ret' = <<fit(args.a, args.b)>>
    /\ UNCHANGED args
    /\ UNCHANGED predVars
    /\ UNCHANGED scenVars
    /\ UNCHANGED storeVars

CalculateSimilarity ==
    /\ args.fn = "calculateSimilarity"
    /\ ret = <<>>
    /\ ret' = <<[raised |-> FALSE, value |-> calculateSimilarity(args.a, args.b)]>>
    /\ UNCHANGED args
    /\ UNCHANGED predVars
    /\ UNCHANGED scenVars
    /\ UNCHANGED storeVars

NextVectors == Fit \/ CalculateSimilarity

SpecVectors == InitVectors /\ [][NextVectors]_vars

----------------------------------------------------------------------------
(* SpecMonotone: scenarios created, extended and reduced under a corpus in  *)
(* which every completed task has completedAt >= createdAt, among them a    *)
(* corpus whose tasks were all completed in the millisecond they were       *)
(* created in.                                                              *)

InstantCorpus ==
    << HistoricalObjective("z", << Done("z1", "ab", 1, "documentation", 0, 0),
                                   Done("z2", "abcd", 5, "", 1, 0),
                                   Done("z3", "abc", 5, "", 0, 0) >>) >>

InitMonotone ==
    /\ IdlePredict
    /\ IdleStore
    /\ IdleCall
    /\ \E j \in StoredObjectives :
         LET loaded == JsonParseObjective(EmptyHeap, j).H
         IN arrays = loaded.arrays /\ tasks = loaded.tasks
            /\ objs = loaded.objs /\ scens = loaded.scens
    /\ hist \in Corpora \cup {InstantCorpus}
    /\ last = [op |-> "none"]

NextMonotone == CreateScenario \/ AddTask \/ RemoveTask

SpecMonotone == InitMonotone /\ [][NextMonotone]_vars

----------------------------------------------------------------------------
(* SpecSparse: the simulator under a corpus with fewer than three completed *)
(* tasks that have both timestamps, and compareScenarios called on the      *)
(* scenarios made so far.                                                   *)

SparseCorpora ==
    { <<>>,
      << HistoricalObjective("h", << Done("h1", "ab", 5, "", 0, 3),
                                     Task("h7", "ab", "completed", 1, TimeGrain, 0,
                                          "documentation", <<>>),
                                     Task("h5", "abcd", "pending", 5, TimeGrain, 0,
                                          "research", <<>>) >>),
         HistoricalObjective("g", << Done("h3", "a", 1, "documentation", 0, 10) >>) >> }

InitSparse ==
    /\ IdlePredict
    /\ IdleStore
    /\ IdleCall
    /\ \E j \in StoredObjectives :
         LET loaded == JsonParseObjective(EmptyHeap, j).H
         IN arrays = loaded.arrays /\ tasks = loaded.tasks
            /\ objs = loaded.objs /\ scens = loaded.scens
    /\ hist \in SparseCorpora
    /\ last = [op |-> "none"]

\* compareScenarios on the scenarios made so far, the first one as the baseline
CompareAll ==
    /\ scens # <<>>
    /\ ret = <<>>
    /\ ret' = <<compareScenarios([s \in 1..Len(scens) |-> ScenarioValueIn(Heap, s)])>>
    /\ UNCHANGED args
    /\ UNCHANGED predVars
    /\ UNCHANGED scenVars
    /\ UNCHANGED storeVars

NextSparse == CreateScenario \/ AddTask \/ RemoveTask \/ ReorderTasks \/ CompareAll

SpecSparse == InitSparse /\ [][NextSparse]_vars

----------------------------------------------------------------------------
(* Properties of the scenario operations, stated on the calls of Spec.  A step
   that sets last' to a call is that call: the unprimed heap is the heap before
   it, the primed heap the heap after it. *)

MutatingOps ==
    {"addTask", "removeTask", "modifyPriority", "changeAgentRole", "reorderTasks"}

\* ids of the top-level tasks of an Objective value
TopLevelIds(objective) == {objective.tasks[i].id : i \in 1..Len(objective.tasks)}

\* the arrays and Task objects reachable from the tasks array at address arr
RECURSIVE ReachableFrom(_, _)
ReachableFrom(H, arr) ==
    {<<"array", arr>>}
    \cup UNION { {<<"task", H.arrays[arr][i]>>}
                 \cup (IF H.tasks[H.arrays[arr][i]].subtasks = 0 THEN {}
                       ELSE ReachableFrom(H, H.tasks[H.arrays[arr][i]].subtasks))
                 : i \in 1..Len(H.arrays[arr]) }

\* C1: a mutating operation (addTask, removeTask, modifyPriority,
\* changeAgentRole, reorderTasks) called on scenario A leaves A as it was: what
\* a reader of A sees after the call (task list with every task's fields, agent
\* role, prediction, modification log) is what it saw before the call.
C1_InputScenarioUntouched ==
    [][last'.op \in MutatingOps =>
         ScenarioValueIn(Heap', last'.a) = ScenarioValueIn(Heap, last'.a)]_vars

\* addTask has returned a scenario with one task more than its input scenario
C1_Witness ==
    /\ last.op = "addTask"
    /\ Len(ScenarioValueIn(Heap, last.b).modifiedObjective.tasks)
         = Len(ScenarioValueIn(Heap, last.a).modifiedObjective.tasks) + 1

\* C2: no two distinct scenarios hold the same task array in modifiedObjective,
\* and no scenario holds the task array of the base objective, so that a change
\* made in place through one modifiedObjective.tasks cannot show through another.
C2_NoSharedTaskArray ==
    /\ \A s, t \in 1..Len(scens) :
         s # t => objs[scens[s].modifiedObjective].tasks
                    # objs[scens[t].modifiedObjective].tasks
    /\ \A s \in 1..Len(scens) :
         objs[scens[s].modifiedObjective].tasks # objs[scens[s].baseObjective].tasks

\* C3: the modifiedObjective of the scenario createScenario returns is a copy
\* that shares no object with the given objective (not the Objective object, not
\* the task array, no Task object, no subtask array), it reads as the same
\* objective (same tasks, same order), and the scenario's log is empty.  No
\* scenario derived afterwards reaches an object of the original either.
C3_CreateScenarioDeepClone ==
    /\ \A s \in 1..Len(scens) :
         /\ scens[s].modifiedObjective # scens[s].baseObjective
         /\ ReachableFrom(Heap, objs[scens[s].modifiedObjective].tasks)
              \cap ReachableFrom(Heap, objs[scens[s].baseObjective].tasks) = {}
    /\ last.op = "createScenario" =>
         /\ scens[last.b].baseObjective = last.input
         /\ ObjectiveValueIn(Heap, scens[last.b].modifiedObjective)
              = ObjectiveValueIn(Heap, last.input)
         /\ scens[last.b].modifications = <<>>

\* createScenario has cloned an objective that has a task with a subtask array
C3_Witness ==
    /\ last.op = "createScenario"
    /\ \E i \in 1..Len(arrays[objs[scens[last.b].modifiedObjective].tasks]) :
         tasks[arrays[objs[scens[last.b].modifiedObjective].tasks][i]].subtasks # 0

\* C4: modifyPriority with an id that no top-level task has returns a scenario
\* with the modifiedObjective, prediction and log of its input; with an id that
\* is found, one task with that id gets the new priority and the task list is
\* otherwise the same (every other task, the order, the other objective fields).
C4_ModifyPriority ==
    [][last'.op = "modifyPriority" =>
         LET A == ScenarioValueIn(Heap, last'.a)
             B == ScenarioValueIn(Heap', last'.b)
             old == A.modifiedObjective.tasks
         IN IF last'.input[1] \notin TopLevelIds(A.modifiedObjective)
            THEN /\ B.modifiedObjective = A.modifiedObjective
                 /\ B.prediction = A.prediction
                 /\ B.modifications = A.modifications
            ELSE \E i \in 1..Len(old) :
                   /\ old[i].id = last'.input[1]
                   /\ B.modifiedObjective =
                        [A.modifiedObjective EXCEPT
                           !.tasks = [old EXCEPT ![i].priority = last'.input[2]]]
    ]_vars

\* modifyPriority was called with an unknown id, after an earlier call with a
\* known id had produced a scenario
C4_Witness ==
    /\ last.op = "modifyPriority"
    /\ last.input[1] \notin TopLevelIds(ScenarioValueIn(Heap, last.a).modifiedObjective)
    /\ \E s \in 1..Len(scens) :
         /\ scens[s].modifications # <<>>
         /\ scens[s].modifications[Len(scens[s].modifications)].type = "change_priority"

\* C5: removeTask returns the top-level task list without the tasks that have
\* the given id, the others in their order and the other objective fields as
\* they were; an id that only a subtask has, or no task has, leaves the list
\* (and the subtasks) unchanged, appends no log entry, and the returned
\* prediction is the one computed for that unchanged list.
C5_RemoveTask ==
    [][last'.op = "removeTask" =>
         LET A == ScenarioValueIn(Heap, last'.a)
             B == ScenarioValueIn(Heap', last'.b)
             old == A.modifiedObjective.tasks
         IN /\ B.modifiedObjective =
                 [A.modifiedObjective EXCEPT
                    !.tasks = SelectSeq(old, LAMBDA t : t.id # last'.input)]
            /\ last'.input \notin TopLevelIds(A.modifiedObjective) =>
                 /\ B.modifiedObjective.tasks = old
                 /\ B.modifications = A.modifications
                 /\ B.prediction = predictObjectiveCompletion(A.modifiedObjective, hist)
    ]_vars

\* removeTask was called with the id of a subtask of a top-level task
C5_Witness ==
    /\ last.op = "removeTask"
    /\ last.input \notin TopLevelIds(ScenarioValueIn(Heap, last.a).modifiedObjective)
    /\ \E i \in 1..Len(ScenarioValueIn(Heap, last.a).modifiedObjective.tasks) :
         last.input \in
           { ScenarioValueIn(Heap, last.a).modifiedObjective.tasks[i].subtasks[j].id :
               j \in 1..Len(ScenarioValueIn(Heap, last.a).modifiedObjective.tasks[i].subtasks) }

\* C6: reorderTasks always returns, and the returned top-level task list is, for
\* the ids of orderedTaskIds that a task of the input has, taken in the order of
\* orderedTaskIds, the input's task with that id: unknown ids contribute
\* nothing, tasks that are not named are gone.
C6_ReorderTasks ==
    [][last'.op = "reorderTasks" =>
         LET A == ScenarioValueIn(Heap, last'.a)
             B == ScenarioValueIn(Heap', last'.b)
             old == A.modifiedObjective.tasks
             new == B.modifiedObjective.tasks
             named == SelectSeq(last'.input,
                                LAMBDA id : id \in TopLevelIds(A.modifiedObjective))
         IN /\ Len(new) = Len(named)
            /\ \A k \in 1..Len(named) :
                 /\ new[k].id = named[k]
                 /\ \E i \in 1..Len(old) : old[i] = new[k]
    ]_vars

\* reorderTasks was called with a list that has an unknown id and omits a task
C6_Witness ==
    /\ last.op = "reorderTasks"
    /\ \E k \in 1..Len(last.input) :
         last.input[k] \notin TopLevelIds(ScenarioValueIn(Heap, last.a).modifiedObjective)
    /\ \E id \in TopLevelIds(ScenarioValueIn(Heap, last.a).modifiedObjective) :
         \A k \in 1..Len(last.input) : last.input[k] # id
    /\ ScenarioValueIn(Heap, last.b).modifiedObjective.tasks # <<>>

\* C7: every scenario obtained from createScenario and the mutating operations,
\* all called with the corpus hist, stores the prediction that
\* predictObjectiveCompletion gives for its modifiedObjective as it now reads
\* and hist.
C7_PredictionCurrent ==
    \A s \in 1..Len(scens) :
        scens[s].prediction
          = predictObjectiveCompletion(
                ObjectiveValueIn(Heap, scens[s].modifiedObjective), hist)

\* a scenario two operations away from the created one, with another prediction
C7_Witness ==
    \E s \in 1..Len(scens) :
        /\ Len(scens[s].modifications) = 2
        /\ scens[s].prediction # scens[1].prediction

LogKind(op) ==
    CASE op = "addTask" -> "add_task"
      [] op = "removeTask" -> "remove_task"
      [] op = "modifyPriority" -> "change_priority"
      [] op = "changeAgentRole" -> "change_role"
      [] op = "reorderTasks" -> "reorder_tasks"

\* C8: the log a mutating operation returns starts with the records of the
\* input's log, unchanged and in order; addTask, changeAgentRole and
\* reorderTasks always, removeTask and modifyPriority when a top-level task has
\* the id, add exactly one record after them, of the kind of the operation.
C8_LogAppendOnly ==
    [][last'.op \in MutatingOps =>
         LET A == ScenarioValueIn(Heap, last'.a)
             B == ScenarioValueIn(Heap', last'.b)
             found ==
                 CASE last'.op = "removeTask" ->
                        last'.input \in TopLevelIds(A.modifiedObjective)
                   [] last'.op = "modifyPriority" ->
                        last'.input[1] \in TopLevelIds(A.modifiedObjective)
                   [] OTHER -> TRUE
         IN /\ Len(B.modifications) >= Len(A.modifications)
            /\ SubSeq(B.modifications, 1, Len(A.modifications)) = A.modifications
            /\ found =>
                 /\ Len(B.modifications) = Len(A.modifications) + 1
                 /\ B.modifications[Len(B.modifications)].type = LogKind(last'.op)
    ]_vars

\* a scenario whose log records a role change followed by a priority change
C8_Witness ==
    \E s \in 1..Len(scens) :
        /\ Len(scens[s].modifications) = 2
        /\ scens[s].modifications[1].type = "change_role"
        /\ scens[s].modifications[2].type = "change_priority"

----------------------------------------------------------------------------
(* Properties of predictTaskCompletionTime, stated on the call of SpecPredict. *)

\* number of tasks of h with status completed and both timestamps
Qualifying(h) ==
    Cardinality({ i \in 1..Len(h) :
                    h[i].status = "completed" /\ h[i].createdAt # 0 /\ h[i].completedAt # 0 })

\* C9: when fewer than 3 historical tasks are completed with both timestamps,
\* the prediction has confidence 0.4 (2/5 of ConfOne), the factors
\* ["Heuristic estimation", "Insufficient historical data"] and
\* similarTaskCount 0, for every task and role.
C9_HeuristicFallback ==
    (presult # <<>> /\ Qualifying(phist) < 3) =>
        /\ 5 * presult[1].confidenceScore = 2 * ConfOne
        /\ presult[1].factors = <<"Heuristic estimation", "Insufficient historical data">>
        /\ presult[1].similarTaskCount = 0

\* a prediction from four historical tasks of which exactly two qualify
C9_Witness ==
    /\ presult # <<>>
    /\ Len(phist) = 4
    /\ Qualifying(phist) = 2

\* C10: the confidenceScore of every prediction is a number from 0 to 1.
C10_ConfidenceInRange ==
    presult # <<>> =>
        /\ presult[1].confidenceScore # NaN
        /\ 0 <= presult[1].confidenceScore
        /\ presult[1].confidenceScore <= ConfOne

\* the similarities of the target to the tasks of h, each as [num, den2]
SimilaritiesTo(task, h) ==
    Tuple([i \in 1..Len(h) |->
             calculateSimilarity(extractTaskFeatures(task), extractTaskFeatures(h[i]))])

\* indices of the completed, timestamped tasks of h whose similarity (in sims)
\* is strictly greater than 3/10
PassingThreshold(h, sims) ==
    { i \in 1..Len(h) :
        /\ h[i].status = "completed" /\ h[i].createdAt # 0 /\ h[i].completedAt # 0
        /\ sims[i].num > 0
        /\ 10 * 10 * sims[i].num * sims[i].num > 3 * 3 * sims[i].den2 }

\* task j comes before task i in descending order of similarity, earlier first on a tie
RanksBefore(sims, j, i) ==
    \/ sims[j].num * sims[j].num * sims[i].den2 > sims[i].num * sims[i].num * sims[j].den2
    \/ /\ sims[j].num * sims[j].num * sims[i].den2 = sims[i].num * sims[i].num * sims[j].den2
       /\ j < i

\* the at most 10 most similar of the tasks in passing
TenMostSimilar(passing, sims) ==
    { i \in passing : Cardinality({ j \in passing : RanksBefore(sims, j, i) }) < 10 }

\* C11: with at least 3 completed, timestamped historical tasks, the prediction
\* counts, and averages the durations of, exactly the at most 10 most similar
\* tasks among those whose similarity to the target is above 0.3; no other task
\* is counted or enters the average (so its duration cannot change the
\* estimate), and when no task passes the threshold the prediction is the
\* heuristic one.
C11_TopTenAboveThreshold ==
    (presult # <<>> /\ Qualifying(phist) >= 3) =>
        \E sims \in {SimilaritiesTo(ptask, phist)} :
        \E passing \in {PassingThreshold(phist, sims)} :
        \E chosen \in {TenMostSimilar(passing, sims)} :
            IF passing = {}
            THEN /\ presult[1].similarTaskCount = 0
                 /\ presult[1].factors = <<"Heuristic estimation", "Insufficient historical data">>
                 /\ presult[1] = getHeuristicEstimate(ptask, prole)
            ELSE /\ presult[1].similarTaskCount = Cardinality(chosen)
                 /\ presult[1].estimatedDuration
                      = (SumSeq([i \in 1..Len(phist) |->
                                   IF i \in chosen
                                   THEN phist[i].completedAt - phist[i].createdAt ELSE 0])
                           * TicksPerMs * getAgentSpeedMultiplier(prole))
                        \div (Cardinality(chosen) * 10)

\* a prediction from eleven tasks above the threshold, of two durations, and
\* one completed task below it
C11_Witness ==
    /\ presult # <<>>
    /\ Qualifying(phist) = 12
    /\ presult[1].similarTaskCount = 10
    /\ \E passing \in {PassingThreshold(phist, SimilaritiesTo(ptask, phist))} :
         /\ Cardinality(passing) = 11
         /\ \E i, j \in passing : phist[i].completedAt # phist[j].completedAt

----------------------------------------------------------------------------
(* Properties of predictObjectiveCompletion, stated on the call of
   SpecObjective. *)

\* predictTaskCompletionTime for the i-th top-level task of the objective
\* passed, against all tasks of the corpus passed and the objective's role
TaskPredictionAt(i) ==
    predictTaskCompletionTime(args.objective.tasks[i],
                              FlatMapTasks(args.historicalObjectives),
                              args.objective.agentRole)

\* the sum of the task estimates, in 1/100 ms (5 per tick)
SumOfEstimates ==
    SumSeq([i \in 1..Len(args.objective.tasks) |-> TaskPredictionAt(i).estimatedDuration]) * 5

\* top-level tasks with confidence below 0.5 or an estimate above 600000 ms
HighRiskTasks ==
    { i \in 1..Len(args.objective.tasks) :
        \/ /\ TaskPredictionAt(i).confidenceScore # NaN
           /\ 2 * TaskPredictionAt(i).confidenceScore < ConfOne
        \/ TaskPredictionAt(i).estimatedDuration > 600000 * TicksPerMs }

\* top-level tasks with an estimate above 900000 ms, in task order
LongTasks ==
    SelectSeq([i \in 1..Len(args.objective.tasks) |-> i],
              LAMBDA i : TaskPredictionAt(i).estimatedDuration > 900000 * TicksPerMs)

\* C12: totalEstimatedTime is 1.2 times the sum of the estimates of the
\* top-level tasks (the sum plus a fifth of it), taskPredictions has exactly
\* the top-level task ids, each with the prediction of its task, and with an
\* empty corpus every prediction is the heuristic one with confidence 0.4.
C12_TotalIsSumTimesOverhead ==
    ret # <<>> =>
        /\ ret[1].totalEstimatedTime = SumOfEstimates + SumOfEstimates \div 5
        /\ SumOfEstimates % 5 = 0
        /\ DOMAIN ret[1].taskPredictions
             = {args.objective.tasks[i].id : i \in 1..Len(args.objective.tasks)}
        /\ \A i \in 1..Len(args.objective.tasks) :
             ret[1].taskPredictions[args.objective.tasks[i].id] = TaskPredictionAt(i)
        /\ args.historicalObjectives = <<>> =>
             \A i \in 1..Len(args.objective.tasks) :
                /\ 5 * ret[1].taskPredictions[args.objective.tasks[i].id].confidenceScore
                     = 2 * ConfOne
                /\ ret[1].taskPredictions[args.objective.tasks[i].id]
                     = getHeuristicEstimate(args.objective.tasks[i], args.objective.agentRole)

\* a prediction, with no history, of four tasks of which one has subtasks
C12_Witness ==
    /\ ret # <<>>
    /\ args.historicalObjectives = <<>>
    /\ Len(args.objective.tasks) = 4
    /\ \E i \in 1..4 : args.objective.tasks[i].subtasks # <<>>
    /\ ret[1].totalEstimatedTime > 0

RiskOrdinal(level) == CASE level = "low" -> 1 [] level = "medium" -> 2 [] level = "high" -> 3

\* C13: with ratio = (number of high-risk tasks) / max(task count, 1), riskLevel
\* is high when ratio > 1/2, medium when 1/4 < ratio <= 1/2 and low otherwise;
\* and at every task count the level for one more high-risk task is never lower.
C13_RiskLevelByRatio ==
    /\ ret # <<>> =>
         \E h \in {Cardinality(HighRiskTasks)}, n \in {Max(Len(args.objective.tasks), 1)} :
            /\ ret[1].riskLevel = "high" <=> 2 * h > n
            /\ ret[1].riskLevel = "medium" <=> (4 * h > n /\ 2 * h <= n)
            /\ ret[1].riskLevel = "low" <=> 4 * h <= n
    /\ \A n \in 0..(MaxTasks + 1) : \A h \in 0..(n - 1) :
         RiskOrdinal(riskLevelOf(h, n)) <= RiskOrdinal(riskLevelOf(h + 1, n))

\* a prediction of four tasks of which exactly two are high-risk
C13_Witness ==
    /\ ret # <<>>
    /\ Len(args.objective.tasks) = 4
    /\ Cardinality(HighRiskTasks) = 2
    /\ ret[1].riskLevel = "medium"

\* C14: bottlenecks holds the titles of the top-level tasks whose estimate is
\* above 900000 ms, in task order, cut to the first three; tasks at or below
\* 900000 ms are not listed, and the confidence plays no part.
C14_BottlenecksAreLongTasks ==
    ret # <<>> =>
        ret[1].bottlenecks
          = [k \in 1..Min(Len(LongTasks), 3) |-> args.objective.tasks[LongTasks[k]].title]

\* four tasks above 900000 ms, one of them predicted with confidence >= 0.5,
\* and one with another title than the first
C14_Witness ==
    /\ ret # <<>>
    /\ Len(LongTasks) = 4
    /\ Len(ret[1].bottlenecks) = 3
    /\ \E i \in 1..4 : 2 * TaskPredictionAt(i).confidenceScore >= ConfOne
    /\ ret[1].bottlenecks[1] # ret[1].bottlenecks[2]

----------------------------------------------------------------------------
(* compareScenarios                                                        *)

Range(seq) == {seq[i] : i \in 1..Len(seq)}

Compared == args.fn = "compareScenarios" /\ ret # <<>>

TotalOf(i) == args.scenarios[i].prediction.totalEstimatedTime

RiskOf(i) == args.scenarios[i].prediction.riskLevel

\* C15: timeDeltas and riskComparison have one entry per scenario, in input
\* order; for the empty list all three lists are empty; timeDeltas[0] is 0
\* and timeDeltas[i] is the total of scenario i minus the total of the first.
C15_DeltasAgainstBaseline ==
    Compared =>
      LET n == Len(args.scenarios)
          c == ret[1]
      IN /\ Len(c.timeDeltas) = n
         /\ Len(c.riskComparison) = n
         /\ n = 0 => c.recommendations = <<>>
         /\ n > 0 => c.timeDeltas[1] = 0
         /\ \A i \in 1..n :
              /\ c.timeDeltas[i] = TotalOf(i) - TotalOf(1)
              /\ c.riskComparison[i] \in
                   { level \o " (" \o ToString(Len(args.scenarios[i].modifiedObjective.tasks))
                       \o " tasks, "
                       \o ToString(Len(args.scenarios[i].prediction.bottlenecks))
                       \o " bottlenecks)"
                     : level \in IF RiskOf(i) = "low" THEN {"LOW"}
                                 ELSE IF RiskOf(i) = "medium" THEN {"MEDIUM"}
                                 ELSE {"HIGH"} }

C15_Witness ==
    /\ Compared
    /\ Len(args.scenarios) = 3
    /\ ret[1].timeDeltas[2] < 0
    /\ ret[1].timeDeltas[3] > 0
    /\ TotalOf(3) - TotalOf(2) # ret[1].timeDeltas[3]
    /\ ret[1].riskComparison[2] # ret[1].riskComparison[3]

\* the first scenario with the smallest total
FirstFastest ==
    CHOOSE i \in 1..Len(args.scenarios) :
        /\ \A j \in 1..Len(args.scenarios) : TotalOf(i) <= TotalOf(j)
        /\ \A j \in 1..(i - 1) : TotalOf(j) > TotalOf(i)

\* the first scenario with the lowest risk, low < medium < high
FirstLowestRisk ==
    CHOOSE i \in 1..Len(args.scenarios) :
        /\ \A j \in 1..Len(args.scenarios) : RiskOrdinal(RiskOf(i)) <= RiskOrdinal(RiskOf(j))
        /\ \A j \in 1..(i - 1) : RiskOrdinal(RiskOf(j)) > RiskOrdinal(RiskOf(i))

FastestMessage(i) == "Scenario \"" \o args.scenarios[i].name \o "\" is the fastest option"

LowestRiskMessage(i) == "Scenario \"" \o args.scenarios[i].name \o "\" has the lowest risk"

\* C16: a 'fastest option' message is emitted exactly when the first scenario
\* with the minimum time delta is not the baseline, and names that scenario;
\* a 'lowest risk' message is emitted exactly when the first scenario with the
\* lowest risk is not the fastest one, and names it; the fastest message
\* comes before the lowest-risk message.
C16_FastestAndLowestRisk ==
    (Compared /\ args.scenarios # <<>>) =>
      LET n == Len(args.scenarios)
          recs == ret[1].recommendations
      IN /\ {i \in 1..n : FastestMessage(i) \in Range(recs)}
              = IF FirstFastest # 1 THEN {FirstFastest} ELSE {}
         /\ {i \in 1..n : LowestRiskMessage(i) \in Range(recs)}
              = IF FirstLowestRisk # FirstFastest THEN {FirstLowestRisk} ELSE {}
         /\ \A k, m \in 1..Len(recs) :
              (\E i \in 1..n : recs[k] = FastestMessage(i))
                /\ (\E i \in 1..n : recs[m] = LowestRiskMessage(i))
              => k < m

C16_Witness ==
    /\ Compared
    /\ Len(args.scenarios) = 3
    /\ TotalOf(2) = TotalOf(3)
    /\ TotalOf(2) < TotalOf(1)
    /\ RiskOf(1) = "high" /\ RiskOf(2) = "medium" /\ RiskOf(3) = "low"
    /\ ret[1].recommendations[1] = FastestMessage(2)
    /\ ret[1].recommendations[2] = LowestRiskMessage(3)

RemovedTasks(i) ==
    Cardinality({k \in 1..Len(args.scenarios[i].modifications) :
                   args.scenarios[i].modifications[k].type = "remove_task"})

AddedTasks(i) ==
    Cardinality({k \in 1..Len(args.scenarios[i].modifications) :
                   args.scenarios[i].modifications[k].type = "add_task"})

\* every time-saved message that names scenario i
SavesMessages(i) ==
    { "Removing " \o ToString(count) \o " task(s) in \"" \o args.scenarios[i].name
        \o "\" saves " \o formatDuration((TotalOf(a) - TotalOf(b)) \div 100)
      : count \in 0..Len(args.scenarios[i].modifications),
        a \in 1..Len(args.scenarios), b \in 1..Len(args.scenarios) }

\* every feasibility message that names scenario i
FeasibleMessages(i) ==
    { "Adding " \o ToString(count) \o " task(s) in \"" \o args.scenarios[i].name
        \o "\" is feasible with low risk"
      : count \in 0..Len(args.scenarios[i].modifications) }

\* C17: for a scenario other than the baseline, a time-saved message naming
\* it is emitted iff its log has a remove_task record and its time delta is
\* negative, and a feasibility message naming it is emitted iff its log has
\* an add_task record and its risk level is low; neither is emitted for the
\* baseline.
C17_ModificationAdvice ==
    Compared =>
      LET recs == Range(ret[1].recommendations)
      IN \A i \in 1..Len(args.scenarios) :
           /\ (recs \cap SavesMessages(i) # {})
                <=> (i # 1 /\ RemovedTasks(i) > 0 /\ TotalOf(i) < TotalOf(1))
           /\ (recs \cap FeasibleMessages(i) # {})
                <=> (i # 1 /\ AddedTasks(i) > 0 /\ RiskOf(i) = "low")

C17_Witness ==
    /\ Compared
    /\ Len(args.scenarios) = 3
    /\ RemovedTasks(1) > 0 /\ AddedTasks(1) > 0 /\ RiskOf(1) = "low"
    /\ RemovedTasks(2) = 2 /\ TotalOf(2) < TotalOf(1)
    /\ RemovedTasks(3) > 0 /\ TotalOf(3) >= TotalOf(1)
    /\ "Removing 2 task(s) in \"Scenario 1\" saves 2h 2m" \in Range(ret[1].recommendations)
    /\ Range(ret[1].recommendations) \cap SavesMessages(3) = {}

----------------------------------------------------------------------------
(* calculateVelocity                                                       *)

VelocityCalls == IF args.fn = "calculateVelocity" THEN 1..Len(ret) ELSE {}

\* the objectives created within the last args.days days before `now`
WithinWindow(now) ==
    {i \in 1..Len(args.objectives) :
       args.objectives[i].createdAt >= now - args.days * DayMs}

\* their top-level tasks that are completed and carry both timestamps
CompletedInWindow(now) ==
    {<<i, k>> \in WithinWindow(now) \X (1..(5 + 5)) :
       /\ k <= Len(args.objectives[i].tasks)
       /\ args.objectives[i].tasks[k].status = "completed"
       /\ args.objectives[i].tasks[k].completedAt # 0
       /\ args.objectives[i].tasks[k].createdAt # 0}

RECURSIVE TotalDuration(_)
TotalDuration(pairs) ==
    IF pairs = {} THEN 0
    ELSE LET p == CHOOSE q \in pairs : TRUE
             t == args.objectives[p[1]].tasks[p[2]]
         IN (t.completedAt - t.createdAt) + TotalDuration(pairs \ {p})

\* C18: calculateVelocity uses only the objectives created within the last
\* `days` days: tasksPerDay is the number of their completed top-level tasks
\* with both timestamps divided by days, objectivesPerWeek is the number of
\* those objectives that are completed, divided by days, times 7, and
\* avgTaskDuration is the mean of completedAt - createdAt over those tasks, 0
\* when there are none; for the empty list all three are 0.
C18_VelocityOverWindow ==
    \A c \in VelocityCalls :
      LET v == ret[c].value
          done == CompletedInWindow(ret[c].now)
          finished == {i \in WithinWindow(ret[c].now) : args.objectives[i].status = "completed"}
      IN /\ v.tasksPerDay * args.days = Cardinality(done) * RateOne
         /\ v.objectivesPerWeek * args.days = Cardinality(finished) * 7 * RateOne
         /\ done # {} => v.avgTaskDuration * Cardinality(done) = TotalDuration(done)
         /\ done = {} => v.avgTaskDuration = 0
         /\ args.objectives = <<>> =>
              v = [tasksPerDay |-> 0, objectivesPerWeek |-> 0, avgTaskDuration |-> 0]

C18_Witness ==
    /\ VelocityCalls # {}
    /\ args.days = 7
    /\ Len(args.objectives) = 3
    /\ WithinWindow(ret[1].now) \notin {{}, 1..3}
    /\ Cardinality(CompletedInWindow(ret[1].now)) = 3
    /\ ret[1].value.objectivesPerWeek = RateOne
    /\ ret[1].value.tasksPerDay > 0
    /\ ret[1].value.avgTaskDuration > 0
    /\ \E i \in 1..3 : \E k \in 1..Len(args.objectives[i].tasks) :
         /\ i \in WithinWindow(ret[1].now)
         /\ <<i, k>> \notin CompletedInWindow(ret[1].now)
         /\ args.objectives[i].tasks[k].status = "completed"

----------------------------------------------------------------------------
(* The agent role                                                          *)

\* the multipliers, in tenths
RoleTenths(role) ==
    CASE role = "developer" -> 9
      [] role = "designer" -> 11
      [] role = "researcher" -> 13
      [] role = "manager" -> 8
      [] role \in {"analyst", "general", ""} -> 5 + 5

RoleOnlyScales ==
    presult # <<>> =>
      LET general == predictTaskCompletionTime(ptask, phist, "general")
          p == presult[1]
      IN /\ p.estimatedDuration * 10 = RoleTenths(prole) * general.estimatedDuration
         /\ p.confidenceScore = general.confidenceScore
         /\ p.factors = general.factors
         /\ p.similarTaskCount = general.similarTaskCount
         /\ prole = "" => p = general

RoleChangeScalesTotal ==
    last'.op = "changeAgentRole" =>
      LET before == ScenarioValueIn(Heap, last'.a)
          after == ScenarioValueIn(Heap', last'.b)
          old == RoleTenths(before.modifiedObjective.agentRole)
          new == RoleTenths(last'.input)
      IN /\ after.modifiedObjective.agentRole = last'.input
         /\ before.prediction.totalEstimatedTime % old = 0
         /\ after.prediction.totalEstimatedTime % new = 0
         /\ after.prediction.totalEstimatedTime \div new
              = before.prediction.totalEstimatedTime \div old

\* C20: the agent role acts only as a speed multiplier: the estimatedDuration
\* of predictTaskCompletionTime for role r is multiplier(r) times the one for
\* role general (developer 0.9, designer 1.1, researcher 1.3, manager 0.8,
\* analyst 1.0, general 1.0), an absent role gives the result of general, and
\* confidenceScore, factors and similarTaskCount are the same for every role;
\* changeAgentRole scales the scenario's totalEstimatedTime by
\* multiplier(new) / multiplier(old).
C20_RoleIsMultiplier == [](RoleOnlyScales) /\ [][RoleChangeScalesTotal]_vars

C20_Witness ==
    /\ last.op = "changeAgentRole"
    /\ last.input = "researcher"
    /\ ScenarioValueIn(Heap, last.a).modifiedObjective.agentRole = "manager"
    /\ ScenarioValueIn(Heap, last.b).prediction.totalEstimatedTime
         > ScenarioValueIn(Heap, last.a).prediction.totalEstimatedTime
    /\ \E id \in DOMAIN ScenarioValueIn(Heap, last.b).prediction.taskPredictions :
         ScenarioValueIn(Heap, last.b).prediction.taskPredictions[id].similarTaskCount > 0

\* a prediction from similar tasks for a role that is neither general nor absent
C20_PredictWitness ==
    /\ presult # <<>>
    /\ prole = "designer"
    /\ presult[1].similarTaskCount > 0
    /\ presult[1].estimatedDuration > 0

----------------------------------------------------------------------------
(* formatDuration                                                          *)

\* C21: both duration-formatting helpers map a non-negative number of
\* milliseconds to "Xd Yh" when it is at least one day, otherwise to "Xh Ym"
\* when it is at least one hour, otherwise to "Xm" when it is at least one
\* minute, and otherwise to a sub-minute string (seconds, or "<1m").
C21_DurationBrackets ==
    (args.fn = "formatDuration" /\ ret # <<>>) =>
      LET ms == args.milliseconds
          text == ret[1].text
      IN IF ms >= DayMs
         THEN text = ToString(ms \div DayMs) \o "d "
                       \o ToString((ms % DayMs) \div HourMs) \o "h"
         ELSE IF ms >= HourMs
         THEN text = ToString(ms \div HourMs) \o "h "
                       \o ToString((ms % HourMs) \div MinuteMs) \o "m"
         ELSE IF ms >= MinuteMs
         THEN text = ToString(ms \div MinuteMs) \o "m"
         ELSE text \in {ToString(ms \div SecondMs) \o "s", "<1m"}

\* the same for the helper of the prediction view alone
PredictionViewBrackets == (ret # <<>> /\ ret[1].view = "simulator") \/ C21_DurationBrackets

\* the same below one day for the helper of the simulator
SimulatorBracketsBelowOneDay ==
    (ret # <<>> /\ ret[1].view = "simulator" /\ args.milliseconds < DayMs)
      => C21_DurationBrackets

----------------------------------------------------------------------------
(* extractTaskFeatures                                                     *)

\* research 4, planning 3, execution 6, testing 5, documentation 2,
\* optimization 7, whatever the case of the letters; 4 for any other category
\* and for an absent one
ComplexityTable(category) ==
    CASE category \in {"research", "RESEARCH"} -> 4
      [] category = "planning" -> 3
      [] category = "execution" -> 6
      [] category \in {"testing", "Testing"} -> 5
      [] category = "documentation" -> 2
      [] category = "optimization" -> 7
      [] OTHER -> 4

\* C23: extractTaskFeatures maps every task to [title length, priority or 5
\* when missing, category complexity, 2 * number of subtasks], the category
\* complexity being 4 both for an unknown and for an absent category.
C23_FeatureVector ==
    (args.fn = "extractTaskFeatures" /\ ret # <<>>) =>
      ret[1] = << Len(args.task.title),
                  IF args.task.priority = 0 THEN 5 ELSE args.task.priority,
                  ComplexityTable(args.task.category),
                  2 * Len(args.task.subtasks) >>

\* the same for the tasks that have a category
FeatureVectorWithCategory == args.fn = "extractTaskFeatures" /\ args.task.category # "" => C23_FeatureVector

----------------------------------------------------------------------------
(* getHeuristicEstimate                                                    *)

\* 180000 ms + 50 ms per title character + (11 - priority) * 30000 ms when the
\* priority is present, in units of 50 ms
BaseWithPriority(priority) ==
    (180000 + 50 * Len(args.task.title)
       + (IF priority # 0 THEN (11 - priority) * 30000 ELSE 0)) \div 50

\* C24: the heuristic estimate adds (11 - priority) * 30000 ms to the base of
\* 180000 ms + 50 ms per title character before the category, subtask and
\* role multipliers are applied: of two tasks that differ only in priority
\* (both in 1..10) the one with the lower priority number gets the strictly
\* larger estimate, and every heuristic estimate is positive.
C24_LowerPriorityNumberIsSlower ==
    args.fn = "getHeuristicEstimate" =>
      \A i, j \in 1..Len(ret) :
        /\ ret[i].value.estimatedDuration > 0
        \* the same multipliers are applied to both bases
        /\ ret[i].value.estimatedDuration % BaseWithPriority(ret[i].priority) = 0
        /\ ret[i].value.estimatedDuration \div BaseWithPriority(ret[i].priority)
             = ret[j].value.estimatedDuration \div BaseWithPriority(ret[j].priority)
        /\ (ret[i].priority \in 1..10 /\ ret[j].priority \in 1..10
              /\ ret[i].priority < ret[j].priority)
             => ret[i].value.estimatedDuration > ret[j].value.estimatedDuration

C24_Witness ==
    /\ args.fn = "getHeuristicEstimate"
    /\ Len(ret) = 2
    /\ ret[1].priority = 9 /\ ret[2].priority = 2
    /\ args.task.category = "Testing" /\ Len(args.task.subtasks) = 2
    /\ args.agentRole = "researcher" /\ Len(args.task.title) = 3
    /\ ret[2].value.estimatedDuration - ret[1].value.estimatedDuration
         > 7 * 30000 * TicksPerMs

----------------------------------------------------------------------------
(* Arrays of different lengths                                             *)

VectorCall == args.fn \in {"fit", "calculateSimilarity"} /\ ret # <<>>

\* C25: a call of the similarity or regression helper with arrays of
\* different lengths raises an error and returns no number, and no other call
\* raises an error.
C25_MismatchIsRaised ==
    VectorCall => (ret[1].raised <=> Len(args.a) # Len(args.b))

\* the regression helper raises on every pair of arrays of different lengths
FitRaisesOnMismatch ==
    (VectorCall /\ args.fn = "fit" /\ Len(args.a) # Len(args.b)) => ret[1].raised

\* the similarity helper never raises; it returns 0 for different lengths
SimilarityAbsorbsMismatch ==
    (VectorCall /\ args.fn = "calculateSimilarity") =>
      /\ ~ret[1].raised
      /\ Len(args.a) # Len(args.b) => ret[1].value.num = 0

----------------------------------------------------------------------------
(* reorderTasks with arbitrary id lists                                    *)

\* the addresses of the Task objects in the task array of scenario s
TaskObjectsOf(s) == arrays[objs[scens[s].modifiedObjective].tasks]

\* C26: the task list that reorderTasks returns holds no task more than once
\* and is not longer than the task list of the scenario it was called on,
\* whatever ids the call names.  (reorderTasks builds a new array and leaves
\* the array of its argument as it was.)
C26_ReorderKeepsTasksApart ==
    last.op = "reorderTasks" =>
      /\ Len(TaskObjectsOf(last.b)) <= Len(TaskObjectsOf(last.a))
      /\ \A i, j \in 1..Len(TaskObjectsOf(last.b)) :
           i # j => TaskObjectsOf(last.b)[i] # TaskObjectsOf(last.b)[j]

\* the same for the calls that name no id twice
ReorderWithoutRepeatedIds ==
    (last.op = "reorderTasks"
       /\ \A i, j \in 1..Len(last.input) : i # j => last.input[i] # last.input[j])
      => C26_ReorderKeepsTasksApart

----------------------------------------------------------------------------
(* addTask and removeTask against the total                                *)

TotalOfScenario(s) == scens[s].prediction.totalEstimatedTime

\* the task list of the scenario the last call was made on has a task with the id named
RemovedTaskFound ==
    \E i \in 1..Len(TaskObjectsOf(last.a)) : tasks[TaskObjectsOf(last.a)[i]].id = last.input

\* the estimate that the scenario the last call was made on holds for the id named
RemovedEstimate == scens[last.a].prediction.taskPredictions[last.input].estimatedDuration

\* C27: with a fixed corpus whose completed tasks all have completedAt >=
\* createdAt, removeTask never returns a scenario with a larger
\* totalEstimatedTime than its input scenario and addTask never returns one
\* with a smaller total; removing a task found in the list strictly lowers
\* the total.
C27_RemoveStrictlyLowers ==
    /\ last.op = "removeTask" =>
         /\ TotalOfScenario(last.b) <= TotalOfScenario(last.a)
         /\ RemovedTaskFound => TotalOfScenario(last.b) < TotalOfScenario(last.a)
    /\ last.op = "addTask" => TotalOfScenario(last.b) >= TotalOfScenario(last.a)

\* removeTask never raises the total and addTask never lowers it; removing a
\* task found in the list lowers the total by 1.2 times the task's estimate,
\* which may be 0
RemoveLowersByEstimate ==
    /\ last.op = "removeTask" =>
         /\ TotalOfScenario(last.b) <= TotalOfScenario(last.a)
         /\ RemovedTaskFound =>
              /\ RemovedEstimate >= 0
              /\ TotalOfScenario(last.a) - TotalOfScenario(last.b)
                   = ApplyOverhead(RemovedEstimate)
         /\ ~RemovedTaskFound => TotalOfScenario(last.b) = TotalOfScenario(last.a)
    /\ last.op = "addTask" => TotalOfScenario(last.b) >= TotalOfScenario(last.a)

\* a removal of a task whose estimate is above 0
RemovalOfEstimatedTask ==
    /\ last.op = "removeTask"
    /\ RemovedTaskFound
    /\ RemovedEstimate > 0
    /\ scens[last.a].prediction.taskPredictions[last.input].similarTaskCount > 0
    /\ TotalOfScenario(last.b) < TotalOfScenario(last.a)
    /\ TotalOfScenario(last.b) > 0

\* a removal of a task whose estimate is 0
RemovalOfInstantTask ==
    /\ last.op = "removeTask"
    /\ RemovedTaskFound
    /\ RemovedEstimate = 0
    /\ TotalOfScenario(last.b) = TotalOfScenario(last.a)

----------------------------------------------------------------------------
(* A corpus with fewer than three qualifying tasks                         *)

SparseHistory == Len(CompletedTasks(FlatMapTasks(hist))) < 3

\* the positions of the feasibility messages in a list of recommendations made
\* for the scenarios compared
FeasibilityPositions(compared, recs) ==
    {k \in 1..Len(recs) :
       \E i \in 1..Len(compared) : \E count \in 0..Len(compared[i].modifications) :
         recs[k] = "Adding " \o ToString(count) \o " task(s) in \"" \o compared[i].name
                     \o "\" is feasible with low risk"}

\* C28: with fewer than 3 completed, timestamped tasks in the corpus every
\* scenario that has at least one task is predicted as high risk and only one
\* with no task as low; compareScenarios then emits feasibility messages only
\* for scenarios that have no task: as many as there are scenarios after the
\* baseline with no task and an add_task record, and none when every
\* scenario has tasks.
C28_SparseHistoryIsHighRisk ==
    SparseHistory =>
      /\ \A s \in 1..Len(scens) :
           scens[s].prediction.riskLevel
             = IF TaskObjectsOf(s) = <<>> THEN "low" ELSE "high"
      /\ ret # <<>> =>
           LET compared == ret[1].scenarios
           IN Cardinality(FeasibilityPositions(compared, ret[1].recommendations))
                = Cardinality({i \in 2..Len(compared) :
                                 /\ compared[i].modifiedObjective.tasks = <<>>
                                 /\ \E k \in 1..Len(compared[i].modifications) :
                                      compared[i].modifications[k].type = "add_task"})

\* three scenarios compared: the second has tasks and an add_task record and
\* gets no message, the third has the record and no task and gets one
C28_Witness ==
    /\ SparseHistory
    /\ hist # <<>>
    /\ ret # <<>>
    /\ Len(ret[1].scenarios) = 3
    /\ ret[1].scenarios[2].modifiedObjective.tasks # <<>>
    /\ ret[1].scenarios[2].modifications # <<>>
    /\ ret[1].scenarios[2].modifications[1].type = "add_task"
    /\ ret[1].scenarios[2].prediction.riskLevel = "high"
    /\ ret[1].scenarios[3].modifiedObjective.tasks = <<>>
    /\ Cardinality(FeasibilityPositions(ret[1].scenarios, ret[1].recommendations)) = 1

----------------------------------------------------------------------------
(* The BabyAGI store and the component that renders it.                     *)
(* An objective is [id, tasks, status], a task [id, status, createdAt,      *)
(* completedAt] (completedAt 0 when absent); titles, descriptions, roles    *)
(* and insights are left out, no operation below reads them.  The store is  *)
(* one value, as zustand keeps it.  The clock advances by a millisecond     *)
(* after every handler that reads it.                                       *)
(* The effect is compared on the values of its dependencies: a store update *)
(* that builds an equal object does not re-run it here.                     *)

MaxClock == 3
MaxGenerated == 2

NewObjective(time) == [id |-> ToString(time), tasks |-> <<>>, status |-> "active"]

addObjective(state, time) ==
    [state EXCEPT !.objectives = <<NewObjective(time)>> \o state.objectives,
                  !.currentObjective = NewObjective(time)]

setCurrentObjective(state, id) ==
    LET found == SelectSeq(state.objectives, LAMBDA o : o.id = id)
    IN IF found # <<>> THEN [state EXCEPT !.currentObjective = found[1]] ELSE state

deleteObjective(state, id) ==
    [state EXCEPT !.objectives = SelectSeq(state.objectives, LAMBDA o : o.id # id),
                  !.currentObjective = IF state.currentObjective.id = id
                                         THEN Null ELSE state.currentObjective]

startProcessing(state) == [state EXCEPT !.isProcessing = TRUE]
pauseProcessing(state) == [state EXCEPT !.isProcessing = FALSE]

resetObjective(state, id) ==
    LET cleared(obj) == [obj EXCEPT !.tasks = <<>>, !.status = "active"]
    IN [state EXCEPT
          !.objectives = [i \in 1..Len(state.objectives) |->
                            IF state.objectives[i].id = id
                              THEN cleared(state.objectives[i]) ELSE state.objectives[i]],
          !.currentObjective = IF state.currentObjective # Null
                                    /\ state.currentObjective.id = id
                                 THEN cleared(state.currentObjective)
                                 ELSE state.currentObjective]

\* the store with its current objective replaced, in the list too
WithCurrent(state, updatedObjective) ==
    [state EXCEPT
       !.currentObjective = updatedObjective,
       !.objectives = [i \in 1..Len(state.objectives) |->
                         IF state.objectives[i].id = state.currentObjective.id
                           THEN updatedObjective ELSE state.objectives[i]]]

completeTask(state, taskId, time) ==
    IF state.currentObjective = Null THEN state
    ELSE LET old == state.currentObjective.tasks
             updatedTasks == [i \in 1..Len(old) |->
                                IF old[i].id = taskId
                                  THEN [old[i] EXCEPT !.status = "completed",
                                                      !.completedAt = time]
                                  ELSE old[i]]
         IN WithCurrent(state, [state.currentObjective EXCEPT !.tasks = updatedTasks])

\* the tasks a generation returns: pending, with ids made of the time and the index
generateTasksWithAI(time, count) ==
    [i \in 1..count |-> [id |-> ToString(time) \o "-" \o ToString(i - 1),
                         status |-> "pending",
                         createdAt |-> time + (i - 1),
                         completedAt |-> 0]]

PendingTasks(objective) == SelectSeq(objective.tasks, LAMBDA t : t.status = "pending")

findIndex(list, id) ==
    IF \E i \in 1..Len(list) : list[i].id = id
      THEN CHOOSE i \in 1..Len(list) :
             list[i].id = id /\ \A j \in 1..(i - 1) : list[j].id # id
      ELSE 0

\* the functional update of the effect: the task at taskIndex becomes executing
MarkExecuting(state, taskIndex) ==
    IF state.currentObjective = Null THEN state
    ELSE WithCurrent(state, [state.currentObjective EXCEPT
                               !.tasks[taskIndex].status = "executing"])

\* the dependencies of the effect that change: isProcessing, currentObjective
Deps == <<store.isProcessing, store.currentObjective>>

\* the user submits the new-objective form; the generation of tasks is awaited
HandleCreateObjective ==
    /\ inflight = <<>>
    /\ clock < MaxClock
    /\ store' = addObjective(store, clock)
    /\ inflight' = <<store'.currentObjective>>
    /\ clock' = clock + 1
    /\ UNCHANGED effect
    /\ UNCHANGED <<predVars, scenVars, callVars>>

\* the awaited generation returns and its tasks are written to the store
GenerationDone ==
    /\ inflight # <<>>
    /\ \E count \in 0..MaxGenerated :
         LET current == inflight[1]
             generated == generateTasksWithAI(clock, count)
         IN store' = [store EXCEPT
                        !.currentObjective = [current EXCEPT !.tasks = generated],
                        !.objectives = [i \in 1..Len(store.objectives) |->
                                          IF store.objectives[i].id = current.id
                                            THEN [store.objectives[i] EXCEPT
                                                    !.tasks = generated]
                                            ELSE store.objectives[i]]]
    /\ inflight' = <<>>
    /\ clock' = clock + 1
    /\ UNCHANGED effect
    /\ UNCHANGED <<predVars, scenVars, callVars>>

\* a click on an objective of the list
SetCurrentObjective ==
    /\ \E i \in 1..Len(store.objectives) :
         store' = setCurrentObjective(store, store.objectives[i].id)
    /\ UNCHANGED <<effect, inflight, clock>>
    /\ UNCHANGED <<predVars, scenVars, callVars>>

\* a click on the bin of an objective of the list
DeleteObjective ==
    /\ \E i \in 1..Len(store.objectives) :
         store' = deleteObjective(store, store.objectives[i].id)
    /\ UNCHANGED <<effect, inflight, clock>>
    /\ UNCHANGED <<predVars, scenVars, callVars>>

\* Start: shown while not processing, enabled while a task is pending
StartProcessing ==
    /\ store.currentObjective # Null
    /\ ~store.isProcessing
    /\ PendingTasks(store.currentObjective) # <<>>
    /\ store' = startProcessing(store)
    /\ UNCHANGED <<effect, inflight, clock>>
    /\ UNCHANGED <<predVars, scenVars, callVars>>

\* Pause: shown while processing
PauseProcessing ==
    /\ store.currentObjective # Null
    /\ store.isProcessing
    /\ store' = pauseProcessing(store)
    /\ UNCHANGED <<effect, inflight, clock>>
    /\ UNCHANGED <<predVars, scenVars, callVars>>

\* the reset button of the current objective
ResetObjective ==
    /\ store.currentObjective # Null
    /\ store' = resetObjective(store, store.currentObjective.id)
    /\ UNCHANGED <<effect, inflight, clock>>
    /\ UNCHANGED <<predVars, scenVars, callVars>>

\* The effect after a render in which a dependency changed: the cleanup of
\* the previous run clears its timer, then the body runs on the rendered state.
Effect ==
    /\ effect.deps # Deps
    /\ LET current == store.currentObjective
           pendingTasks == PendingTasks(current)
           nextTask == pendingTasks[1]
           taskIndex == findIndex(current.tasks, nextTask.id)
       IN IF ~store.isProcessing \/ current = Null
            THEN /\ store' = store
                 /\ effect' = [deps |-> Deps, timer |-> ""]
            ELSE IF pendingTasks = <<>>
                   THEN /\ store' = pauseProcessing(store)
                        /\ effect' = [deps |-> Deps, timer |-> ""]
                   ELSE /\ store' = MarkExecuting(store, taskIndex)
                        /\ effect' = [deps |-> Deps, timer |-> nextTask.id]
    /\ UNCHANGED <<inflight, clock>>
    /\ UNCHANGED <<predVars, scenVars, callVars>>

\* the timer of the effect fires: completeTask(nextTask.id); it may fire before
\* or after the effect runs again, every interleaving is allowed
TimerFires ==
    /\ effect.timer # ""
    /\ store' = completeTask(store, effect.timer, clock)
    /\ effect' = [effect EXCEPT !.timer = ""]
    /\ clock' = clock + 1
    /\ UNCHANGED inflight
    /\ UNCHANGED <<predVars, scenVars, callVars>>

InitStore ==
    /\ IdlePredict
    /\ IdleScenario
    /\ IdleCall
    /\ IdleStore

\* every interleaving of the user, the effect, its timer and the generation
NextStore ==
    \/ HandleCreateObjective
    \/ GenerationDone
    \/ SetCurrentObjective
    \/ DeleteObjective
    \/ StartProcessing
    \/ PauseProcessing
    \/ ResetObjective
    \/ Effect
    \/ TimerFires

SpecStore == InitStore /\ [][NextStore]_vars

\* the runs in which the user creates objectives and starts, and nothing else
NextProcessing ==
    \/ HandleCreateObjective
    \/ GenerationDone
    \/ StartProcessing
    \/ Effect
    \/ TimerFires

SpecProcessing == InitStore /\ [][NextProcessing]_vars

\* React runs a pending effect, the browser fires a pending timer, and the
\* awaited generation returns
FairProcessing ==
    SpecProcessing /\ WF_vars(Effect) /\ WF_vars(TimerFires) /\ WF_vars(GenerationDone)

----------------------------------------------------------------------------
(* Claims about the store                                                   *)

CurrentTasks == IF store.currentObjective = Null THEN <<>> ELSE store.currentObjective.tasks

Executing == { i \in 1..Len(CurrentTasks) : CurrentTasks[i].status = "executing" }

\* the last run of the effect saw processing on, and processing is off now:
\* without a pause by the user, the effect itself has stopped the processing
StoppedByEffect ==
    /\ ~store.isProcessing
    /\ effect.deps # <<>>
    /\ effect.deps[1]

\* C22: once processing is started and the user does not pause it, the pending
\* tasks are executed one after another in list order (a task is executing only
\* when every task before it is completed, with its completedAt set), and when
\* the processing stops by itself no task is pending or executing.
C22_TasksRunInOrderToCompletion ==
    /\ \A i \in Executing : \A j \in 1..(i - 1) :
         CurrentTasks[j].status = "completed" /\ CurrentTasks[j].completedAt > 0
    /\ StoppedByEffect =>
         \A i \in 1..Len(CurrentTasks) : CurrentTasks[i].status = "completed"

\* The liveness half of C22 on its own: processing that has started leads to a
\* state in which it has stopped and every task of the current objective is
\* completed.  FairProcessing violates it: the run ends with tasks executing.
StartedLeadsToCompleted ==
    store.isProcessing ~>
        (~store.isProcessing
           /\ \A i \in 1..Len(CurrentTasks) : CurrentTasks[i].status = "completed")

\* C29: at most one top-level task of the current objective is executing, in
\* every reachable state of the store, under every interleaving of the effect,
\* its timer, its cleanup and the user's start and pause.
C29_AtMostOneExecuting == Cardinality(Executing) <= 1

\* C30: a current objective that is not null has the id and the tasks of an
\* objective of the objectives list, also after a task generation that returns
\* when the user has selected another objective or deleted the new one.
C30_CurrentIsInList ==
    store.currentObjective # Null =>
        \E i \in 1..Len(store.objectives) :
            /\ store.objectives[i].id = store.currentObjective.id
            /\ store.objectives[i].tasks = store.currentObjective.tasks

====
